---- MODULE Spec2Model ----
(***************************************************************************)
(* A model of the slima_agents pipeline core: the PipelineTracker state    *)
(* machine with its Markdown progress document (tracker.py), the claude    *)
(* CLI runner with its retry/timeout/cancel policy (agents/claude_runner.py*)
(* and agents/base.py), and the resume logic of the orchestrators          *)
(* (pipeline/orchestrator.py, mystery/orchestrator.py,                     *)
(* worldbuild/orchestrator.py).                                            *)
(*                                                                         *)
(* Text is modelled as a sequence of atoms.  An atom is a string that the  *)
(* parser never looks inside ("planning", "12:00:05", "5.0s"); the three   *)
(* characters the parser does act on are atoms of their own: "|", " " and  *)
(* the newline NL.                                                         *)
(***************************************************************************)
EXTENDS Integers, Sequences, FiniteSets, TLC

\* ---------------------------------------------------------------- bounds
MaxStages == 2
MaxNsStages == 3
MaxClock == 1
MaxOps == 3

\* ------------------------------------------------------------- constants
\* stage_failed keeps error[:200]; _render_markdown keeps prompt[:200]
NotesLimit == 200
\* the "all done" value of next_stage()
DoneSentinel == -1
\* last_completed_stage() when nothing is completed
NoneCompleted == 0

VARIABLES
    tracker,        \* the in-memory PipelineTracker
    progress_md,    \* remote content of agent-log/progress.md (<<>> = no file)
    clock,          \* what _iso_now() returns, in seconds
    ops,            \* tracker calls made so far
    ns_pc,          \* position of the next_stage() caller
    ns_out,         \* what next_stage() returned
    members,        \* the agents of one fan-out phase, each in BaseAgent.run
    phase_pc,       \* position of the task that awaits the phase
    orch,           \* the orchestrator's run(): position, inputs, locals
    remote,         \* the remote book store, apart from progress.md
    stream,         \* one ClaudeRunner.run call and the stdout it reads
    ctx             \* one working context and the tasks that call it

trackerVars == <<tracker, progress_md, clock, ops>>
nsVars == <<ns_pc, ns_out>>
runnerVars == <<members, phase_pc>>
orchVars == <<orch, remote>>
notTrackerVars == <<ns_pc, ns_out, members, phase_pc, orch, remote, stream, ctx>>
vars == <<tracker, progress_md, clock, ops, ns_pc, ns_out, members, phase_pc, orch, remote, stream, ctx>>

\* ------------------------------------------------------------------ text
NL == "\n"
BAR == "|"
SP == " "
\* the em dash (U+2014) that stands for an empty time or duration
DASH == "--"

\* the (number, name) pairs the orchestrators declare (mystery/orchestrator.py)
StageNames == <<"planning", "book_setup", "crime_design", "characters">>

StageName(n) == IF n \in 1..Len(StageNames) THEN StageNames[n] ELSE "stage"

\* StageRecord.status as documented on the dataclass
StageStatuses == {"pending", "running", "completed", "failed", "skipped"}

NoTime == -1

\* str(n) for the integers the model renders
IntRange == -1..11

IntStr(n) == ToString(n)

\* int(s): TRUE iff s is the decimal form of an integer
IsIntStr(a) == \E n \in IntRange : IntStr(n) = a

IntOf(a) == CHOOSE n \in IntRange : IntStr(n) = a

\* f"{duration_s}s" of a float that holds a whole number of seconds
DurStr(d) == ToString(d) \o ".0s"

\* datetime.strftime("%H:%M:%S") of second t of the day
TimeStr(t) == "00:00:0" \o ToString(t)

\* _iso_now(): strftime("%Y-%m-%dT%H:%M:%SZ")
IsoStr(t) == "2026-01-01T00:00:0" \o ToString(t) \o "Z"

RECURSIVE Flatten(_)
Flatten(ss) == IF ss = <<>> THEN <<>> ELSE Head(ss) \o Flatten(Tail(ss))

\* sep.join(parts)
RECURSIVE JoinWith(_, _)
JoinWith(parts, sep) ==
    IF parts = <<>> THEN <<>>
    ELSE IF Len(parts) = 1 THEN parts[1]
    ELSE parts[1] \o <<sep>> \o JoinWith(Tail(parts), sep)

\* text.split(sep): always at least one part
RECURSIVE SplitOn(_, _)
SplitOn(text, sep) ==
    IF \A i \in 1..Len(text) : text[i] # sep THEN <<text>>
    ELSE LET k == CHOOSE i \in 1..Len(text) :
                      text[i] = sep /\ \A j \in 1..(i - 1) : text[j] # sep
         IN  <<SubSeq(text, 1, k - 1)>> \o SplitOn(SubSeq(text, k + 1, Len(text)), sep)

RECURSIVE LStrip(_)
LStrip(text) ==
    IF text # <<>> /\ Head(text) = SP THEN LStrip(Tail(text)) ELSE text

RECURSIVE RStrip(_)
RStrip(text) ==
    IF text # <<>> /\ text[Len(text)] = SP
    THEN RStrip(SubSeq(text, 1, Len(text) - 1)) ELSE text

\* str.strip()
Strip(text) == RStrip(LStrip(text))

\* str.startswith(prefix)
StartsWith(text, prefix) ==
    Len(text) >= Len(prefix) /\ SubSeq(text, 1, Len(prefix)) = prefix

\* the Python string an atom sequence stands for
RECURSIVE AsString(_)
AsString(text) == IF text = <<>> THEN "" ELSE Head(text) \o AsString(Tail(text))

\* text[:n]
Take(text, n) == IF Len(text) <= n THEN text ELSE SubSeq(text, 1, n)

\* ------------------------------------------------------ StageRecord lists
StageRecord(n, name) ==
    [number |-> n, name |-> name, status |-> "pending", started_at |-> NoTime,
     completed_at |-> NoTime, duration_s |-> 0, notes |-> <<>>]

\* sorted(self.stages, key=lambda s: s.number): a stable insertion sort
RECURSIVE InsertByNumber(_, _)
InsertByNumber(sorted, rec) ==
    IF sorted = <<>> THEN <<rec>>
    ELSE IF sorted[Len(sorted)].number <= rec.number THEN Append(sorted, rec)
    ELSE Append(InsertByNumber(SubSeq(sorted, 1, Len(sorted) - 1), rec),
                sorted[Len(sorted)])

RECURSIVE SortedStagesFrom(_, _)
SortedStagesFrom(stages, acc) ==
    IF stages = <<>> THEN acc
    ELSE SortedStagesFrom(Tail(stages), InsertByNumber(acc, Head(stages)))

\* a plausible slip: iterating self.stages in declaration order
UnsortedStages(stages) == stages

SortedStages(stages) == SortedStagesFrom(stages, <<>>)

\* PipelineTracker.next_stage
RECURSIVE FirstOpen(_)
FirstOpen(sorted) ==
    IF sorted = <<>> THEN DoneSentinel
    ELSE IF Head(sorted).status \in {"pending", "running", "failed"}
         THEN Head(sorted).number
         ELSE FirstOpen(Tail(sorted))

NextStage(stages) == FirstOpen(SortedStages(stages))

RECURSIVE MaxOf(_)
MaxOf(S) ==
    IF S = {} THEN NoneCompleted
    ELSE LET x == CHOOSE y \in S : TRUE
             m == MaxOf(S \ {x})
         IN  IF S = {x} \/ x > m THEN x ELSE m

\* PipelineTracker.last_completed_stage
LastCompletedStage(stages) ==
    MaxOf({stages[i].number : i \in {j \in 1..Len(stages) : stages[j].status = "completed"}})

\* PipelineTracker._find: index of the first record with that number, 0 if none
Find(stages, n) ==
    IF \E i \in 1..Len(stages) : stages[i].number = n
    THEN CHOOSE i \in 1..Len(stages) :
             stages[i].number = n /\ \A j \in 1..(i - 1) : stages[j].number # n
    ELSE 0

\* ------------------------------------------------- the progress document
\* _short_time
ShortTime(t) == IF t = NoTime THEN DASH ELSE TimeStr(t)

\* one table line from its cells: "| c1 | c2 | ... |"
RECURSIVE RowCells(_)
RowCells(cells) ==
    IF cells = <<>> THEN <<>>
    ELSE <<SP>> \o Head(cells) \o <<SP, BAR>> \o RowCells(Tail(cells))

TableRow(cells) == <<BAR>> \o RowCells(cells)

\* the f-string of _render_markdown's loop body
StageRow(s) ==
    TableRow(<< <<IntStr(s.number)>>, <<s.name>>, <<s.status>>,
                <<ShortTime(s.started_at)>>, <<ShortTime(s.completed_at)>>,
                <<IF s.duration_s # 0 THEN DurStr(s.duration_s) ELSE DASH>>,
                s.notes >>)

HeaderRow ==
    TableRow(<< <<"#">>, <<"Stage">>, <<"Status">>, <<"Started">>,
                <<"Completed">>, <<"Duration">>, <<"Notes">> >>)

SeparatorRow ==
    <<BAR, "---", BAR, "-------", BAR, "--------", BAR, "---------", BAR,
      "-----------", BAR, "----------", BAR, "-------", BAR>>

StageRows(sorted) == [i \in 1..Len(sorted) |-> StageRow(sorted[i])]

\* PipelineTracker._render_markdown
RenderMarkdown(t) ==
    JoinWith(
        << <<"# Pipeline Progress">>,
           <<>>,
           <<"- **Pipeline**:", SP, t.pipeline_name>>,
           <<"- **Status**:", SP, t.status>>,
           <<"- **Started**:", SP>>
               \o (IF t.started_at = NoTime THEN <<>> ELSE <<IsoStr(t.started_at)>>),
           <<"- **Prompt**:", SP>> \o Take(t.prompt, NotesLimit),
           <<>>,
           <<"## Stages">>,
           <<>>,
           HeaderRow,
           SeparatorRow >>
        \o StageRows(SortedStages(t.stages))
        \o << <<>>,
              <<"## Resume Info">>,
              <<>>,
              <<"Last completed stage:", SP, IntStr(LastCompletedStage(t.stages))>>,
              <<"Next stage to run:", SP, IntStr(NextStage(t.stages))>> >>,
        NL)

\* the value of a "- **Label**: value" line: line.split(":", 1)[1].strip()
MetaValue(line) == Strip(Tail(line))

\* the last line that starts with the label decides (the loop overwrites)
RECURSIVE MetaField(_, _, _)
MetaField(lines, label, default) ==
    IF lines = <<>> THEN default
    ELSE LET line == lines[Len(lines)]
         IN  IF line # <<>> /\ Head(line) = label
             THEN MetaValue(line)
             ELSE MetaField(SubSeq(lines, 1, Len(lines) - 1), label, default)

\* parts = [p.strip() for p in stripped.split("|")]; parts = [p for p in parts if p != ""]
RowParts(stripped) ==
    SelectSeq([i \in 1..Len(SplitOn(stripped, BAR)) |-> Strip(SplitOn(stripped, BAR)[i])],
              LAMBDA p : p # <<>>)

\* re.match(r"([\d.]+)s", dur_str) and float(m.group(1))
DurOf(part) ==
    IF Len(part) = 1 /\ \E d \in 1..9 : DurStr(d) = part[1]
    THEN CHOOSE d \in 1..9 : DurStr(d) = part[1]
    ELSE 0

\* the StageRecord built from one table line
ParsedRecord(parts) ==
    [number |-> IntOf(parts[1][1]),
     name |-> AsString(parts[2]),
     status |-> AsString(parts[3]),
     started_at |-> NoTime,
     completed_at |-> NoTime,
     duration_s |-> IF parts[6] # <<DASH>> THEN DurOf(parts[6]) ELSE 0,
     notes |-> IF Len(parts) > 6 THEN parts[7] ELSE <<>>]

\* the second loop of _parse_markdown, line by line
RECURSIVE ParseRows(_, _, _)
ParseRows(lines, in_table, acc) ==
    IF lines = <<>> THEN acc
    ELSE LET stripped == Strip(Head(lines))
             rest == Tail(lines)
         IN  IF StartsWith(stripped, <<BAR, SP, "#", SP, BAR>>)
             THEN ParseRows(rest, TRUE, acc)
             ELSE IF StartsWith(stripped, <<BAR, "---", BAR>>)
             THEN ParseRows(rest, in_table, acc)
             ELSE IF in_table /\ StartsWith(stripped, <<BAR>>)
             THEN LET parts == RowParts(stripped)
                  IN  IF Len(parts) >= 6 /\ Len(parts[1]) = 1 /\ IsIntStr(parts[1][1])
                      THEN ParseRows(rest, in_table, Append(acc, ParsedRecord(parts)))
                      ELSE ParseRows(rest, in_table, acc)
             ELSE IF in_table
             THEN ParseRows(rest, FALSE, acc)
             ELSE ParseRows(rest, in_table, acc)

\* PipelineTracker._parse_markdown
ParseMarkdown(content) ==
    LET lines == SplitOn(content, NL)
    IN  [pipeline_name |-> AsString(MetaField(lines, "- **Pipeline**:", <<>>)),
         status |-> AsString(MetaField(lines, "- **Status**:", <<"pending">>)),
         started_at |-> AsString(MetaField(lines, "- **Started**:", <<>>)),
         prompt |-> MetaField(lines, "- **Prompt**:", <<>>),
         stages |-> ParseRows(lines, FALSE, <<>>)]

\* ------------------------------------------------------ PipelineTracker
\* error texts handed to stage_failed: str(e) of any exception
\* a one-line message, one holding a "|", and a two-line message
ErrTexts == {<<"e">>, <<"e", BAR, "e">>, <<"e", NL, "e">>}

\* the notes argument of stage_complete (the orchestrators pass none)
NoteTexts == {<<>>, <<"e">>}

\* the stage-number lists handed to define_stages: 1..n in ascending order, as
\* the orchestrators declare them, and in descending order
Ascending(n) == [i \in 1..n |-> i]

Descending(n) == [i \in 1..n |-> n + 1 - i]

StageLists(max) == {Ascending(n) : n \in 1..max} \cup {Descending(n) : n \in 1..max}

\* PipelineTracker(pipeline_name, book_token, prompt, slima)
NewTracker(name, prompt) ==
    [pipeline_name |-> name, status |-> "pending", started_at |-> NoTime,
     prompt |-> prompt, stages |-> <<>>]

\* PipelineTracker.define_stages
DefineStagesOp(t, numbers) ==
    [t EXCEPT !.stages = [i \in 1..Len(numbers) |-> StageRecord(numbers[i], StageName(numbers[i]))]]

\* the mutation of WriteProgress: the document is rendered before the change
WriteStale(t, remote_ok) ==
    IF remote_ok THEN RenderMarkdown(tracker) ELSE progress_md

\* PipelineTracker._write: write_file, then create_file, then give up and log
WriteProgress(t, remote_ok) ==
    IF remote_ok THEN RenderMarkdown(t) ELSE progress_md

\* the in-memory part of stage_start
StageStartOp(t, n) ==
    LET i == Find(t.stages, n)
    IN  IF i = 0 THEN t
        ELSE [t EXCEPT !.stages[i].status = "running", !.stages[i].started_at = clock]

\* the in-memory part of stage_complete
StageCompleteOp(t, n, notes) ==
    LET i == Find(t.stages, n)
    IN  IF i = 0 THEN t
        ELSE [t EXCEPT !.stages[i].status = "completed",
                       !.stages[i].completed_at = clock,
                       !.stages[i].duration_s =
                           IF t.stages[i].started_at # NoTime
                           THEN clock - t.stages[i].started_at
                           ELSE @,
                       !.stages[i].notes = IF notes # <<>> THEN notes ELSE @]

\* the in-memory part of stage_failed
StageFailedOp(t, n, error) ==
    LET i == Find(t.stages, n)
    IN  IF i = 0 THEN t
        ELSE [t EXCEPT !.stages[i].status = "failed",
                       !.stages[i].completed_at = clock,
                       !.stages[i].notes = Take(error, NotesLimit)]

\* the parts of the program a specification leaves out stay where they are
NsIdle == ns_pc = "unused" /\ ns_out = DoneSentinel
RunnerIdle == members = <<>> /\ phase_pc = "unused"
OrchIdle == orch = [pc |-> "unused"] /\ remote = [book |-> "unused"]
StreamIdle == stream = [pc |-> "unused"]

CtxIdle == ctx = [pc |-> "unused"]

TrackerInit ==
    /\ tracker = NewTracker("mystery", <<"p">>)
    /\ progress_md = <<>>
    /\ clock = 0
    /\ ops = 0
    /\ NsIdle /\ StreamIdle /\ RunnerIdle /\ CtxIdle /\ OrchIdle

DefineStages(numbers) ==
    /\ tracker.status = "pending" /\ tracker.stages = <<>>
    /\ tracker' = DefineStagesOp(tracker, numbers)
    /\ UNCHANGED <<progress_md, clock, ops>>
    /\ UNCHANGED notTrackerVars

Start(remote_ok) ==
    /\ tracker.stages # <<>> /\ ops < MaxOps
    /\ ops' = ops + 1
    /\ tracker' = [tracker EXCEPT !.status = "running", !.started_at = clock]
    /\ progress_md' = WriteProgress(tracker', remote_ok)
    /\ UNCHANGED clock
    /\ UNCHANGED notTrackerVars

StageStart(n, remote_ok) ==
    /\ tracker.stages # <<>> /\ ops < MaxOps
    /\ ops' = ops + 1
    /\ tracker' = StageStartOp(tracker, n)
    /\ progress_md' = IF Find(tracker.stages, n) = 0 THEN progress_md
                      ELSE WriteProgress(tracker', remote_ok)
    /\ UNCHANGED clock
    /\ UNCHANGED notTrackerVars

StageComplete(n, notes, remote_ok) ==
    /\ tracker.stages # <<>> /\ ops < MaxOps
    /\ ops' = ops + 1
    /\ tracker' = StageCompleteOp(tracker, n, notes)
    /\ progress_md' = IF Find(tracker.stages, n) = 0 THEN progress_md
                      ELSE WriteProgress(tracker', remote_ok)
    /\ UNCHANGED clock
    /\ UNCHANGED notTrackerVars

StageFailed(n, error, remote_ok) ==
    /\ tracker.stages # <<>> /\ ops < MaxOps
    /\ ops' = ops + 1
    /\ tracker' = StageFailedOp(tracker, n, error)
    /\ progress_md' = IF Find(tracker.stages, n) = 0 THEN progress_md
                      ELSE WriteProgress(tracker', remote_ok)
    /\ UNCHANGED clock
    /\ UNCHANGED notTrackerVars

Complete(remote_ok) ==
    /\ tracker.stages # <<>> /\ ops < MaxOps
    /\ ops' = ops + 1
    /\ tracker' = [tracker EXCEPT !.status = "completed"]
    /\ progress_md' = WriteProgress(tracker', remote_ok)
    /\ UNCHANGED clock
    /\ UNCHANGED notTrackerVars

Fail(remote_ok) ==
    /\ tracker.stages # <<>> /\ ops < MaxOps
    /\ ops' = ops + 1
    /\ tracker' = [tracker EXCEPT !.status = "failed"]
    /\ progress_md' = WriteProgress(tracker', remote_ok)
    /\ UNCHANGED clock
    /\ UNCHANGED notTrackerVars

\* time passes between two calls of _iso_now()
Tick ==
    /\ clock < MaxClock
    /\ clock' = clock + 1
    /\ UNCHANGED <<tracker, progress_md, ops>>
    /\ UNCHANGED notTrackerVars

TrackerNext ==
    \/ \E numbers \in StageLists(MaxStages) : DefineStages(numbers)
    \/ \E ok \in BOOLEAN : Start(ok)
    \/ \E n \in 1..MaxStages, ok \in BOOLEAN : StageStart(n, ok)
    \/ \E n \in 1..MaxStages, notes \in NoteTexts, ok \in BOOLEAN : StageComplete(n, notes, ok)
    \/ \E n \in 1..MaxStages, e \in ErrTexts, ok \in BOOLEAN : StageFailed(n, e, ok)
    \/ \E ok \in BOOLEAN : Complete(ok)
    \/ \E ok \in BOOLEAN : Fail(ok)
    \/ Tick

SpecTracker == TrackerInit /\ [][TrackerNext]_vars

\* C22: a tracker operation whose remote write fails leaves the document as it
\* was and keeps its change of the in-memory state; a write that succeeds
\* stores the rendering of the in-memory state of that moment, whatever writes
\* failed before it
C22_WriteFailureSwallowed ==
    [][ops' # ops =>
          \/ progress_md' = RenderMarkdown(tracker')
          \/ progress_md' = progress_md]_vars

\* a write has reached the store and a later one has not: the document is
\* behind the in-memory state, which holds the later change
C22_Witness ==
    /\ ops >= 2
    /\ progress_md # <<>>
    /\ progress_md # RenderMarkdown(tracker)
    /\ tracker.status = "running"
    /\ \E i \in DOMAIN tracker.stages : tracker.stages[i].status = "completed"

\* ------------------------------------------- next_stage() as a function
\* sequences of distinct stage numbers, in any order
RECURSIVE NumberLists(_, _)
NumberLists(numbers, n) ==
    IF n = 0 THEN {<<>>}
    ELSE NumberLists(numbers, n - 1)
         \cup {Append(l, k) : l \in {m \in NumberLists(numbers, n - 1) : Len(m) = n - 1},
                              k \in numbers}

DistinctLists(max) ==
    {l \in NumberLists(1..max, max) : \A i, j \in 1..Len(l) : i # j => l[i] # l[j]}

\* every assignment of statuses to the records of a stage-definition list
StatusAssignments(numbers) ==
    {[i \in 1..Len(numbers) |->
        [StageRecord(numbers[i], StageName(numbers[i])) EXCEPT !.status = st[i]]] :
     st \in [1..Len(numbers) -> StageStatuses]}

NextStageInit ==
    /\ \E numbers \in DistinctLists(MaxNsStages) :
         \E stages \in StatusAssignments(numbers) :
            tracker = [NewTracker("mystery", <<"p">>) EXCEPT !.stages = stages]
    /\ progress_md = <<>>
    /\ clock = 0
    /\ ops = 0
    /\ ns_pc = "call"
    /\ ns_out = DoneSentinel
    /\ RunnerIdle /\ OrchIdle /\ StreamIdle /\ CtxIdle

CallNextStage ==
    /\ ns_pc = "call"
    /\ ns_out' = NextStage(tracker.stages)
    /\ ns_pc' = "returned"
    /\ UNCHANGED <<trackerVars, runnerVars, orchVars, stream, ctx>>

SpecNextStage == NextStageInit /\ [][CallNextStage]_vars

\* ------------------------------------------------------------- claims
NumbersNotIn(stages, done) ==
    {stages[i].number : i \in {j \in 1..Len(stages) : stages[j].status \notin done}}

Smallest(S) == CHOOSE x \in S : \A y \in S : x <= y

\* C4 as stated: next_stage() returns the smallest ordinal whose status is not
\* completed, and the done sentinel exactly when every record is completed.
C4_NextStageNotCompleted ==
    ns_pc = "returned" =>
        LET open == NumbersNotIn(tracker.stages, {"completed"})
        IN  /\ (open = {}) <=> (ns_out = DoneSentinel)
            /\ open # {} => ns_out = Smallest(open)

\* C4 amended: next_stage() returns the smallest ordinal whose status is pending,
\* running or failed (a skipped record is passed over like a completed one), and
\* the done sentinel exactly when every record is completed or skipped.
C4_NextStageOpen ==
    ns_pc = "returned" =>
        LET open == NumbersNotIn(tracker.stages, {"completed", "skipped"})
        IN  /\ (open = {}) <=> (ns_out = DoneSentinel)
            /\ open # {} => ns_out = Smallest(open)

\* next_stage() has returned an ordinal after passing over a skipped record and a
\* completed one, on a list that is not in ascending order
C4_Witness ==
    /\ ns_pc = "returned"
    /\ ns_out # DoneSentinel
    /\ \E i, j, k \in 1..Len(tracker.stages) :
          /\ tracker.stages[i].status = "skipped" /\ tracker.stages[i].number < ns_out
          /\ tracker.stages[j].status = "completed" /\ tracker.stages[j].number < ns_out
          /\ tracker.stages[k].number = ns_out /\ k < i

\* C5: parsing the rendered progress document yields a tracker with equal
\* pipeline name, overall status, number of stages, and per-stage ordinal, status
\* and duration.
C5_RoundTrip ==
    LET parsed == ParseMarkdown(RenderMarkdown(tracker))
        sorted == SortedStages(tracker.stages)
    IN  /\ parsed.pipeline_name = tracker.pipeline_name
        /\ parsed.status = tracker.status
        /\ Len(parsed.stages) = Len(tracker.stages)
        /\ \A i \in 1..Len(sorted) :
              /\ parsed.stages[i].number = sorted[i].number
              /\ parsed.stages[i].status = sorted[i].status
              /\ parsed.stages[i].duration_s = sorted[i].duration_s

\* the transitions of a StageRecord's status that the state machine allows
AllowedEdges ==
    {<<"pending", "running">>, <<"running", "completed">>,
     <<"running", "failed">>, <<"failed", "running">>}

\* C6: a stage record's status only changes along pending -> running,
\* running -> completed, running -> failed or failed -> running; a completed
\* record never changes status again.
C6_StatusEdges ==
    [][\A i \in 1..Len(tracker.stages) :
          (Len(tracker'.stages) = Len(tracker.stages)
           /\ tracker'.stages[i].status # tracker.stages[i].status)
          => <<tracker.stages[i].status, tracker'.stages[i].status>> \in AllowedEdges]_vars

\* =================================================== the claude CLI runner
\* agents/claude_runner.py and agents/base.py.  A member is one agent of a
\* phase: a task running BaseAgent.run, which awaits ClaudeRunner.run.
MaxMembers == 2
\* MAX_RETRIES
MAX_RETRIES == 2

\* agents/tools.py: the tool sets an agent can be given, by the names of the tools
ToolSets ==
    [write |-> {"create_file", "write_file", "read_file", "edit_file",
                "get_book_structure", "search_content"},
     read  |-> {"read_file", "get_book_structure", "search_content"},
     none  |-> {}]

\* BaseAgent._has_write_tools: a tool whose name contains "create" or "write"
HasWriteTools(tools) == tools \cap {"create_file", "write_file"} # {}

\* BaseAgent.run passes retry_on_timeout = not has_write
RetryOnTimeout(tools) == ~HasWriteTools(tools)

\* the mutation of BreakOnTimeout: the loop goes on after a timeout
NeverBreakOnTimeout(retry_on_timeout) == FALSE

\* ClaudeRunner.run: "if not retry_on_timeout: break"
BreakOnTimeout(retry_on_timeout) == ~retry_on_timeout

\* the mutation of KillProc: the process is left alone
LeaveProc(procs) == procs

\* proc.kill() on the process of the current attempt; ProcessLookupError (the
\* process is gone) and NameError (none was spawned) are swallowed
KillProc(procs) ==
    IF procs # <<>> /\ procs[Len(procs)] = "running"
    THEN [procs EXCEPT ![Len(procs)] = "killed"]
    ELSE procs

\* the outcomes of ClaudeRunner.run that are a ClaudeRunnerError
ClaudeRunnerErrors == {"Timed out", "Empty result", "All retries exhausted"}

\* BaseAgent.run: what the agent's caller gets for an outcome of ClaudeRunner.run
AgentOutcome(tools, outcome) ==
    CASE outcome = "text" -> "result"
      [] outcome = "Timed out" /\ HasWriteTools(tools) -> "partial"
      [] outcome = "CancelledError" -> "cancelled"
      [] OTHER -> "raised"

NewMember(tools) ==
    [pc |-> "created", tools |-> tools, attempt |-> 0, procs |-> <<>>,
     result_text |-> "", last_assistant_text |-> "", last_error |-> "",
     cancel |-> FALSE, outcome |-> "none", agent |-> "none",
     output |-> ""]

\* ClaudeRunner.run ends with this outcome, and BaseAgent.run with what it makes
\* of it; the locals of the two calls are gone
Finish(mem, outcome) ==
    [mem EXCEPT !.pc = "done", !.outcome = outcome,
                !.agent = AgentOutcome(mem.tools, outcome),
                !.output = IF outcome = "text" THEN mem.result_text ELSE "",
                !.result_text = "", !.last_assistant_text = "", !.last_error = ""]

\* "continue": the next attempt, or after the last one "raise last_error or ..."
Continue(mem) ==
    IF mem.attempt < MAX_RETRIES
    THEN [mem EXCEPT !.pc = "spawn", !.attempt = @ + 1,
                     !.result_text = "", !.last_assistant_text = ""]
    ELSE Finish(mem, IF mem.last_error # "" THEN mem.last_error ELSE "All retries exhausted")

Members == DOMAIN members

Running(m) == members[m].pc \notin {"created", "done"} /\ ~members[m].cancel

RunnerInit ==
    /\ \/ \E tools \in DOMAIN ToolSets : members = <<NewMember(ToolSets[tools])>>
       \/ \E n \in 2..MaxMembers : members = [m \in 1..n |-> NewMember(ToolSets["write"])]
    /\ phase_pc = "gather"
    /\ tracker = NewTracker("worldbuild", <<"p">>) /\ progress_md = <<>>
    /\ clock = 0 /\ ops = 0
    /\ NsIdle /\ StreamIdle /\ OrchIdle /\ CtxIdle

\* the task starts: BaseAgent.run calls ClaudeRunner.run, which enters its loop
RunStart(m) ==
    /\ members[m].pc = "created" /\ ~members[m].cancel
    /\ members' = [members EXCEPT ![m] = Continue(@)]
    /\ UNCHANGED <<phase_pc, trackerVars, nsVars, stream, ctx, orchVars>>

\* create_subprocess_exec returns a process; _read_stream starts on its stdout
SpawnOk(m) ==
    /\ Running(m) /\ members[m].pc = "spawn"
    /\ members' = [members EXCEPT ![m].procs = Append(@, "running"),
                                  ![m].pc = "read"]
    /\ UNCHANGED <<phase_pc, trackerVars, nsVars, stream, ctx, orchVars>>

\* create_subprocess_exec raises (no such binary, no more descriptors): nothing
\* in ClaudeRunner.run or BaseAgent.run catches an OSError
SpawnFail(m) ==
    /\ Running(m) /\ members[m].pc = "spawn"
    /\ members' = [members EXCEPT ![m] = Finish(@, "OSError")]
    /\ UNCHANGED <<phase_pc, trackerVars, nsVars, stream, ctx, orchVars>>

\* an "assistant" event with a text block
ReadAssistant(m) ==
    /\ Running(m) /\ members[m].pc = "read" /\ members[m].last_assistant_text = ""
    /\ members' = [members EXCEPT ![m].last_assistant_text = "a"]
    /\ UNCHANGED <<phase_pc, trackerVars, nsVars, stream, ctx, orchVars>>

\* the "result" event: its text is kept and the loop is left
ReadResult(m, text) ==
    /\ Running(m) /\ members[m].pc = "read"
    /\ members' = [members EXCEPT ![m].result_text = text, ![m].pc = "drain"]
    /\ UNCHANGED <<phase_pc, trackerVars, nsVars, stream, ctx, orchVars>>

\* stdout ends without a "result" event
ReadEOF(m) ==
    /\ Running(m) /\ members[m].pc = "read"
    /\ members' = [members EXCEPT ![m].pc = "drain"]
    /\ UNCHANGED <<phase_pc, trackerVars, nsVars, stream, ctx, orchVars>>

\* a line that is not UTF-8: raw_line.decode raises out of _read_stream and
\* out of ClaudeRunner.run, past every handler, with the process as it is
ReadError(m) ==
    /\ Running(m) /\ members[m].pc = "read"
    /\ members' = [members EXCEPT ![m] = Finish(@, "UnicodeDecodeError")]
    /\ UNCHANGED <<phase_pc, trackerVars, nsVars, stream, ctx, orchVars>>

\* asyncio.timeout fires in the read loop: the process is killed, then drained
ReadTimeout(m) ==
    /\ Running(m) /\ members[m].pc = "read"
    /\ members' = [members EXCEPT ![m].procs = KillProc(@),
                                  ![m].pc = "timeout_drain"]
    /\ UNCHANGED <<phase_pc, trackerVars, nsVars, stream, ctx, orchVars>>

\* _read_stream returns timed_out = True; ClaudeRunner.run breaks or continues
TimeoutDrained(m) ==
    /\ Running(m) /\ members[m].pc = "timeout_drain"
    /\ LET mem == [members[m] EXCEPT !.last_error = "Timed out"]
       IN  members' = [members EXCEPT ![m] =
                          IF BreakOnTimeout(RetryOnTimeout(mem.tools))
                          THEN Finish(mem, mem.last_error)
                          ELSE Continue(mem)]
    /\ UNCHANGED <<phase_pc, trackerVars, nsVars, stream, ctx, orchVars>>

\* the drain after the loop: "await proc.stdout.read()" and "await
\* proc.stderr.read()" run to end-of-file under no timer, so the step is taken
\* when the worker has closed both streams; then
\* the process exits within 10 s, with exit code 0
\* ("exited") or another ("failed"), which proc.wait() returns to nobody, or
\* it is killed; an empty result falls back to the last assistant text.  (Exit
\* codes are told apart for a call that runs alone, not for the members of a
\* fan-out phase, where nothing reads them either.)
Drained(m, exited, returncode) ==
    /\ Running(m) /\ members[m].pc = "drain"
    /\ returncode # 0 => exited /\ Len(members) = 1
    /\ members' = [members EXCEPT
          ![m].procs = IF exited
                       THEN [@ EXCEPT ![Len(@)] = IF returncode = 0 THEN "exited" ELSE "failed"]
                       ELSE KillProc(@),
          ![m].result_text = IF @ = "" THEN members[m].last_assistant_text ELSE @,
          ![m].pc = "stderr"]
    /\ UNCHANGED <<phase_pc, trackerVars, nsVars, stream, ctx, orchVars>>

\* stderr is read; an empty result is an error to retry, any other is returned
StderrRead(m) ==
    /\ Running(m) /\ members[m].pc = "stderr"
    /\ members' = [members EXCEPT ![m] =
          IF @.result_text = ""
          THEN Continue([@ EXCEPT !.last_error = "Empty result"])
          ELSE Finish(@, "text")]
    /\ UNCHANGED <<phase_pc, trackerVars, nsVars, stream, ctx, orchVars>>

\* CancelledError is raised at the await the member is suspended in: the handler
\* of ClaudeRunner.run kills the process and re-raises (a task that never started
\* just ends cancelled)
CancelMember(m) ==
    /\ members[m].cancel /\ members[m].pc # "done"
    /\ members' = [members EXCEPT ![m] =
          Finish([@ EXCEPT !.procs = IF @ = <<>> THEN @ ELSE KillProc(@)], "CancelledError")]
    /\ UNCHANGED <<phase_pc, trackerVars, nsVars, stream, ctx, orchVars>>

\* the task awaiting asyncio.gather is cancelled: gather cancels every child that
\* is not done
CancelTop ==
    /\ phase_pc = "gather"
    /\ \E m \in Members : members[m].pc # "done"
    /\ phase_pc' = "cancelling"
    /\ members' = [m \in Members |->
                      IF members[m].pc # "done" THEN [members[m] EXCEPT !.cancel = TRUE]
                      ELSE members[m]]
    /\ UNCHANGED <<trackerVars, nsVars, stream, ctx, orchVars>>

\* the mutation of GatherDone: gather without return_exceptions, which raises
\* to its caller as soon as one child has raised
GatherFirstException(ms) ==
    \/ \A m \in DOMAIN ms : ms[m].pc = "done"
    \/ \E m \in DOMAIN ms : ms[m].pc = "done" /\ ms[m].agent = "raised"

\* asyncio.gather(..., return_exceptions=True) is done when every child is done,
\* whether it returned or raised
GatherDone(ms) == \A m \in DOMAIN ms : ms[m].pc = "done"

\* gather(return_exceptions=True) returns once every child is done
PhaseReturn ==
    /\ phase_pc = "gather"
    /\ GatherDone(members)
    /\ phase_pc' = "returned"
    /\ UNCHANGED <<members, trackerVars, nsVars, stream, ctx, orchVars>>

\* ... or raises CancelledError into the awaiting task, once every child is done
PhaseCancelled ==
    /\ phase_pc = "cancelling"
    /\ GatherDone(members)
    /\ phase_pc' = "cancelled"
    /\ UNCHANGED <<members, trackerVars, nsVars, stream, ctx, orchVars>>

RunnerNext ==
    \/ \E m \in Members : RunStart(m)
    \/ \E m \in Members : SpawnOk(m)
    \/ \E m \in Members : SpawnFail(m)
    \/ \E m \in Members : ReadAssistant(m)
    \/ \E m \in Members, text \in {"", "r"} : ReadResult(m, text)
    \/ \E m \in Members : ReadEOF(m)
    \/ \E m \in Members : ReadError(m)
    \/ \E m \in Members : ReadTimeout(m)
    \/ \E m \in Members : TimeoutDrained(m)
    \/ \E m \in Members, exited \in BOOLEAN, returncode \in {0, 1} :
          Drained(m, exited, returncode)
    \/ \E m \in Members : StderrRead(m)
    \/ \E m \in Members : CancelMember(m)
    \/ CancelTop
    \/ PhaseReturn
    \/ PhaseCancelled

SpecRunner == RunnerInit /\ [][RunnerNext]_vars

\* the steps the event loop and its timers take by themselves: a task that can
\* run is run, create_subprocess_exec returns or raises, asyncio.timeout(timeout)
\* fires in the read loop, the pipes of a killed process reach end-of-file, a
\* stream at end-of-file is read, a requested cancellation is delivered.  What
\* the worker writes, and when it closes its streams, is up to the worker: the
\* read steps and Drained are under no fairness condition.
RunnerFairness ==
    /\ WF_vars(\E m \in Members : RunStart(m))
    /\ WF_vars(\E m \in Members : SpawnOk(m) \/ SpawnFail(m))
    /\ WF_vars(\E m \in Members : ReadTimeout(m))
    /\ WF_vars(\E m \in Members : TimeoutDrained(m))
    /\ WF_vars(\E m \in Members : StderrRead(m))
    /\ WF_vars(\E m \in Members : CancelMember(m))
    /\ WF_vars(PhaseReturn)
    /\ WF_vars(PhaseCancelled)

SpecRunnerFair == RunnerInit /\ [][RunnerNext]_vars /\ RunnerFairness

\* ------------------------------------------------------ claims: runner
\* an attempt of m's call has timed out
TimedOutAttempt(m) ==
    \/ members[m].pc = "timeout_drain"
    \/ members[m].last_error = "Timed out"
    \/ members[m].outcome = "Timed out"

NoneRunning(m) == \A i \in 1..Len(members[m].procs) : members[m].procs[i] # "running"

C9_TwoSpawnsOrWorkerError ==
    \A m \in Members :
        /\ Len(members[m].procs) <= MAX_RETRIES
        /\ members[m].outcome \notin {"none", "text", "CancelledError"}
              => members[m].outcome \in ClaudeRunnerErrors

\* C32: every failing outcome of a call is a ClaudeRunnerError: a call whose
\* worker could not be spawned, and a call whose worker ended with a non-zero
\* exit code, end with that error, never with another exception and never
\* with a normal return.
C32_FailureIsWorkerError ==
    \A m \in Members :
        members[m].pc = "done" =>
            /\ members[m].outcome \in {"text", "CancelledError"} \cup ClaudeRunnerErrors
            /\ (members[m].procs # <<>> /\ members[m].procs[Len(members[m].procs)] = "failed")
                  => members[m].outcome # "text"

\* C38: a call made for an agent with create/write tools spawns its worker at
\* most once, whatever the outcome of the attempt (timeout, empty result,
\* success).
C38_WriteAgentSpawnsOnce ==
    \A m \in Members :
        HasWriteTools(members[m].tools) => Len(members[m].procs) <= 1

\* C39: every call ends, returning or raising, when only the timers are
\* assumed to fire: also for a worker that emits its result event and then
\* never closes its output streams or never exits, and for one that emits
\* nothing.
C39_EveryCallEnds ==
    <>(\A m \in Members : members[m].pc = "done")

\* C40: when a call has returned or raised, on whatever path, every worker
\* process the call spawned has exited or has been killed.
C40_NoWorkerLeftRunning ==
    \A m \in Members :
        members[m].pc = "done" =>
            \A i \in 1..Len(members[m].procs) :
                members[m].procs[i] \in {"exited", "failed", "killed"}

\* C10: when a call is cancelled, its subprocess is not running any more by the
\* time CancelledError leaves the call, whatever await it was suspended in; and
\* when the task awaiting a fan-out phase gets its CancelledError, every member
\* that was in flight has ended with no subprocess running.
C10_KilledBeforeCancelPropagates ==
    /\ \A m \in Members : members[m].outcome = "CancelledError" => NoneRunning(m)
    /\ phase_pc = "cancelled" =>
          \A m \in Members : members[m].cancel => members[m].pc = "done" /\ NoneRunning(m)

\* the cancellation of a phase of several members has propagated, each member
\* had spawned a subprocess that was killed, one of them in its second attempt
C10_Witness ==
    /\ phase_pc = "cancelled" /\ Len(members) >= 2
    /\ \A m \in Members :
          /\ members[m].outcome = "CancelledError"
          /\ members[m].procs # <<>>
          /\ members[m].procs[Len(members[m].procs)] = "killed"
    /\ \E m \in Members : Len(members[m].procs) = 2

\* C11: in a fan-out phase an exception raised by one member cancels no sibling:
\* while the phase is awaited no member is asked to cancel, and when the phase
\* has finished every member has run to its own end (returned or raised), none
\* of them cancelled.
C11_SiblingsRunToCompletion ==
    /\ phase_pc = "gather" => \A m \in Members : ~members[m].cancel
    /\ phase_pc = "returned" =>
          \A m \in Members :
             /\ members[m].pc = "done"
             /\ members[m].agent \in {"result", "partial", "raised"}

\* a phase of several members has finished: one member raised at its first spawn,
\* every other member went on to return a result from a worker that has exited
C11_Witness ==
    /\ phase_pc = "returned" /\ Len(members) >= 2
    /\ \E r \in Members :
          /\ members[r].agent = "raised" /\ members[r].procs = <<>>
          /\ \A m \in Members \ {r} :
                /\ members[m].agent = "result"
                /\ members[m].procs # <<>>
                /\ members[m].procs[Len(members[m].procs)] = "exited"

\* ============================================ the worker's event stream
\* agents/claude_runner.py: one call of ClaudeRunner.run, seen from the lines
\* the worker writes on stdout.  (The process itself, its exit and the
\* cancellation of the call are in the section above.)
MaxEvents == 3

\* the texts of the "text" blocks of an assistant event, in order: none (tool
\* use only), one text, or one block whose text is empty
AssistantTexts == {<<>>, <<"a">>, <<"b">>, <<"">>}

\* stream-json lines: the init event, assistant messages, result events and
\* every line the loop passes over (blank, not JSON, any other type)
InitEvents == {[type |-> "system", subtype |-> "init", session_id |-> "sess1"]}
AssistantEvents == {[type |-> "assistant", texts |-> t] : t \in AssistantTexts}
ResultEvents ==
    {[type |-> "result", result |-> "r", num_turns |-> 2],
     [type |-> "result", result |-> "", num_turns |-> 1]}
OtherEvents == {[type |-> "user"]}
Events == InitEvents \cup AssistantEvents \cup ResultEvents \cup OtherEvents

\* what a worker process writes: up to max lines, the init event at most once
Scripts(max) ==
    {s \in UNION {[1..n -> Events] : n \in 0..max} :
        Cardinality({i \in DOMAIN s : s[i] \in InitEvents}) <= 1}

\* the locals of _read_stream
NewLocals ==
    [result_text |-> "", num_turns |-> 0, last_assistant_text |-> "",
     session_id |-> ""]

\* "for block in content: if block type is text: last_assistant_text = text"
LastText(texts, last) == IF texts = <<>> THEN last ELSE texts[Len(texts)]

\* the init event's session id is kept
CaptureSession(l, event) == [l EXCEPT !.session_id = event.session_id]

\* one turn of the "async for raw_line in proc.stdout" loop
ReadEvent(l, event) ==
    CASE event.type = "assistant" ->
            [l EXCEPT !.last_assistant_text = LastText(event.texts, @)]
      [] event.type = "result" ->
            [l EXCEPT !.result_text = event.result, !.num_turns = event.num_turns]
      [] event.type = "system" -> CaptureSession(l, event)
      [] OTHER -> l

\* the mutation of StopAtResult: the loop reads on after a result event
NeverStop(etype) == FALSE

\* "break" at the end of the result branch
StopAtResult(etype) == etype = "result"

\* "if not result_text and last_assistant_text: result_text = last_assistant_text"
FallbackText(result_text, last_assistant_text) ==
    IF result_text = "" /\ last_assistant_text # "" THEN last_assistant_text
    ELSE result_text

\* what ClaudeRunner.run returns: the text with the turn count and the session id
RunOutput(l) ==
    [text |-> l.result_text, num_turns |-> l.num_turns, session_id |-> l.session_id]

NoOutput == [text |-> "", num_turns |-> 0, session_id |-> ""]

\* cmd = ["claude", "-p", prompt, "--verbose", "--output-format", "stream-json",
\*        "--system-prompt", system_prompt, "--max-turns", str(max_turns)]
BaseCommand ==
    <<"claude", "-p", "prompt", "--verbose", "--output-format", "stream-json",
      "--system-prompt", "system_prompt", "--max-turns", "max_turns">>

\* the resume argument of the command
ResumeArgs(resume_session) ==
    IF resume_session # "" THEN <<"--resume", resume_session>> ELSE <<>>

\* cmd is built once, before the attempts
BuildCommand(resume_session) == BaseCommand \o ResumeArgs(resume_session)

\* the mutation of SpawnCommand: a retry spawns the command without its extras
FirstSpawnOnly(cmd, attempt) == IF attempt = 1 THEN cmd ELSE BaseCommand

\* create_subprocess_exec(*cmd, ...): every attempt spawns the same cmd
SpawnCommand(cmd, attempt) == cmd

NewCall(resume_session, retry_on_timeout) ==
    [pc |-> "spawn", resume_session |-> resume_session,
     retry_on_timeout |-> retry_on_timeout, cmd |-> BuildCommand(resume_session),
     attempt |-> 1, spawned |-> <<>>, script |-> <<>>, pos |-> 0,
     locals |-> NewLocals, last_error |-> "", out |-> NoOutput]

\* an attempt is over without a text: its process and the locals of
\* _read_stream are gone
Forget(s) == [s EXCEPT !.script = <<>>, !.pos = 0, !.locals = NewLocals]

\* "continue" in the attempt loop, and "raise last_error" after the last attempt
NextAttempt(s) ==
    IF s.attempt < MAX_RETRIES
    THEN [Forget(s) EXCEPT !.pc = "spawn", !.attempt = @ + 1]
    ELSE [Forget(s) EXCEPT !.pc = "raised"]

StreamInit ==
    /\ \E resume_session \in {"", "sess0"}, retry_on_timeout \in BOOLEAN :
          stream = NewCall(resume_session, retry_on_timeout)
    /\ tracker = NewTracker("worldbuild", <<"p">>) /\ progress_md = <<>>
    /\ clock = 0 /\ ops = 0
    /\ NsIdle /\ RunnerIdle /\ OrchIdle /\ CtxIdle

\* an attempt spawns the worker, which will write script; _read_stream starts
StreamSpawn(script) ==
    /\ stream.pc = "spawn"
    /\ stream' = [stream EXCEPT
          !.spawned = Append(@, SpawnCommand(stream.cmd, stream.attempt)),
          !.script = script, !.pos = 0, !.locals = NewLocals, !.pc = "read"]
    /\ UNCHANGED <<trackerVars, nsVars, runnerVars, orchVars, ctx>>

\* the loop takes the next line
StreamEvent ==
    /\ stream.pc = "read" /\ stream.pos < Len(stream.script)
    /\ LET event == stream.script[stream.pos + 1]
       IN  stream' = [stream EXCEPT
              !.pos = @ + 1,
              !.locals = ReadEvent(@, event),
              !.pc = IF StopAtResult(event.type) THEN "drain" ELSE "read"]
    /\ UNCHANGED <<trackerVars, nsVars, runnerVars, orchVars, ctx>>

\* stdout ends: the loop is over without a result event
StreamEnd ==
    /\ stream.pc = "read" /\ stream.pos = Len(stream.script)
    /\ stream' = [stream EXCEPT !.pc = "drain"]
    /\ UNCHANGED <<trackerVars, nsVars, runnerVars, orchVars, ctx>>

\* the timeout fires while the loop waits for a line: _read_stream returns
\* timed_out = True, and ClaudeRunner.run keeps the error and breaks or continues
StreamTimeout ==
    /\ stream.pc = "read"
    /\ LET s == [stream EXCEPT !.last_error = "Timed out"]
       IN  stream' = IF BreakOnTimeout(s.retry_on_timeout)
                     THEN [Forget(s) EXCEPT !.pc = "raised"]
                     ELSE NextAttempt(s)
    /\ UNCHANGED <<trackerVars, nsVars, runnerVars, orchVars, ctx>>

\* after the loop: the pipes are drained, the fallback is applied and
\* _read_stream returns; ClaudeRunner.run retries an empty text and returns any other
StreamReturn ==
    /\ stream.pc = "drain"
    /\ LET text == FallbackText(stream.locals.result_text,
                                stream.locals.last_assistant_text)
       IN  stream' =
              IF text = ""
              THEN NextAttempt([stream EXCEPT !.last_error = "Empty result"])
              ELSE [stream EXCEPT
                      !.pc = "returned",
                      !.out = RunOutput([stream.locals EXCEPT !.result_text = text])]
    /\ UNCHANGED <<trackerVars, nsVars, runnerVars, orchVars, ctx>>

StreamNext ==
    \/ \E script \in Scripts(MaxEvents) : StreamSpawn(script)
    \/ StreamEvent
    \/ StreamEnd
    \/ StreamTimeout
    \/ StreamReturn

SpecStream == StreamInit /\ [][StreamNext]_vars

\* ------------------------------------------------------ claims: stream
\* the position of the first result event of a script (0 = none)
FirstResult(script) ==
    IF \E i \in DOMAIN script : script[i].type = "result"
    THEN CHOOSE i \in DOMAIN script :
            /\ script[i].type = "result"
            /\ \A j \in 1..(i - 1) : script[j].type # "result"
    ELSE 0

\* the session id of the init event among the first k lines ("" = none)
SessionBefore(script, k) ==
    IF \E i \in 1..k : script[i].type = "system"
    THEN script[CHOOSE i \in 1..k : script[i].type = "system"].session_id
    ELSE ""

\* the loop of the current attempt is over, and it has read a result event
ResultRead ==
    /\ stream.pc = "drain"
    /\ FirstResult(stream.script) # 0
    /\ stream.pos >= FirstResult(stream.script)

\* an assistant event with a text
HasText(event) ==
    /\ event.type = "assistant"
    /\ event.texts # <<>>
    /\ event.texts[Len(event.texts)] # ""

CarriesResume(cmd, s) ==
    \E i \in 1..(Len(cmd) - 1) : cmd[i] = "--resume" /\ cmd[i + 1] = s

C20_AssistantFallback ==
    [][LET k == FirstResult(stream.script)
       IN  (/\ ResultRead
            /\ stream.script[k].result = ""
            /\ \E j \in 1..(k - 1) : HasText(stream.script[j])) =>
               LET last == CHOOSE j \in 1..(k - 1) :
                              /\ HasText(stream.script[j])
                              /\ \A i \in (j + 1)..(k - 1) : ~HasText(stream.script[i])
                   texts == stream.script[last].texts
               IN  /\ stream'.pc = "returned"
                   /\ stream'.out.text = texts[Len(texts)]]_vars

\* C21: when the timeout fires in an attempt that has read an assistant text and
\* no result event, the call returns that text, flagged as timed out
C21_TimeoutReturnsAssistantText ==
    [][(/\ stream.pc = "read"
        /\ stream.locals.last_assistant_text # ""
        /\ stream'.pc \notin {"read", "drain"}) =>
           /\ stream'.pc = "returned_timed_out"
           /\ stream'.out.text = stream.locals.last_assistant_text]_vars

\* ======================================================= the orchestrators
\* pipeline/orchestrator.py (GenericOrchestrator.run) and mystery/orchestrator.py
\* (MysteryOrchestratorAgent.run): a fresh run, or a resume against a book.
MaxRuns == 2
MaxFaults == 1

\* a PipelinePlan: writing stages, optional validation and polish (0 = None)
NoPlan ==
    [genre |-> "", stages |-> <<>>, validation |-> 0, validation_tools |-> "write",
     polish |-> 0, polish_tools |-> "write"]

\* plans a GenericPlannerAgent can produce: one with the stages listed out of
\* order, a read-only stage, validation and polish; one with a single stage
GenericPlans ==
    {[genre |-> "romance",
      stages |-> <<[number |-> 4, tool_set |-> "read"], [number |-> 3, tool_set |-> "write"]>>,
      validation |-> 5, validation_tools |-> "write",
      polish |-> 6, polish_tools |-> "write"],
     [genre |-> "essay",
      stages |-> <<[number |-> 3, tool_set |-> "write"]>>,
      validation |-> 0, validation_tools |-> "write",
      polish |-> 0, polish_tools |-> "write"]}

\* a plan the planner can produce as well: nothing in PipelinePlan or in run()
\* relates the numbers of validation and polish to those of the stages
OddPlans ==
    {[genre |-> "memoir",
      stages |-> <<[number |-> 3, tool_set |-> "write"]>>,
      validation |-> 5, validation_tools |-> "write",
      polish |-> 4, polish_tools |-> "write"]}

\* the fixed stages of the mystery pipeline: 3..9 write, 10 validates, 11 polishes
MysteryPlan ==
    [genre |-> "mystery",
     stages |-> [i \in 1..7 |-> [number |-> i + 2, tool_set |-> "write"]],
     validation |-> 10, validation_tools |-> "write",
     polish |-> 11, polish_tools |-> "write"]

\* the stage blocks of run() in the order the code reaches them
StageBlocks(plan) ==
    LET sorted == SortedStages(plan.stages)
    IN  [i \in 1..Len(sorted) |->
            [number |-> sorted[i].number, role |-> "writer", tool_set |-> sorted[i].tool_set]]
        \o (IF plan.validation # 0
            THEN <<[number |-> plan.validation, role |-> "validation",
                    tool_set |-> plan.validation_tools]>>
            ELSE <<>>)
        \o (IF plan.polish # 0
            THEN <<[number |-> plan.polish, role |-> "polish", tool_set |-> plan.polish_tools]>>
            ELSE <<>>)

\* _create_tracker: (1, planning), (2, book_setup), then the plan's stages
TrackerNumbers(plan) ==
    <<1, 2>> \o [i \in 1..Len(StageBlocks(plan)) |-> StageBlocks(plan)[i].number]

\* "for sn in range(1, resume_from): rec.status = 'completed'"
MarkCompletedBefore(t, resume_from) ==
    [t EXCEPT !.stages = [i \in 1..Len(t.stages) |->
        IF t.stages[i].number \in 1..(resume_from - 1)
        THEN [t.stages[i] EXCEPT !.status = "completed"]
        ELSE t.stages[i]]]

\* the tracker run() builds before the stage loop
CreateTracker(plan, resume_from) ==
    MarkCompletedBefore(
        DefineStagesOp(NewTracker(plan.genre, <<"p">>), TrackerNumbers(plan)), resume_from)

\* the mutation of ShouldRun: every stage block runs
AlwaysRun(resume_from, number) == TRUE

\* the guard of a stage block: "if resume_from <= number"
ShouldRun(resume_from, number) == resume_from <= number

\* the mutation of ResumeDone: the early return is never taken
NeverDone(resume_from) == FALSE

\* "if resume_from == -1: return resume_book"
ResumeDone(resume_from) == resume_from = DoneSentinel

\* the outcomes of ClaudeRunner.run that a caller that is not cancelled can see
RunnerOutcomes == {"text", "Timed out", "Empty result", "OSError"}

\* the mutation of StageAgentOutcome: a timeout is an error for every agent
TimeoutIsError(tool_set, outcome) ==
    IF outcome = "text" THEN "result" ELSE "raised"

\* agent.run() of the agent of a stage block
StageAgentOutcome(tool_set, outcome) == AgentOutcome(ToolSets[tool_set], outcome)

NoCall == [stage |-> 0, tool_set |-> "none", outcome |-> "none", agent |-> "none", left |-> 0]

\* a persisted tracker in which the first m stages are completed, the rest pending
GivenTracker(plan, m) ==
    LET t == DefineStagesOp(NewTracker(plan.genre, <<"p">>), TrackerNumbers(plan))
    IN  [t EXCEPT !.status = IF m = Len(t.stages) THEN "completed" ELSE "running",
                  !.started_at = 0,
                  !.stages = [i \in 1..Len(t.stages) |->
                      IF i <= m THEN [t.stages[i] EXCEPT !.status = "completed"]
                      ELSE t.stages[i]]]

\* m when the first m records (by number) are completed and the others pending,
\* -1 for any other list
PrefixOf(stages) ==
    LET sorted == SortedStages(stages)
        ms == {m \in 0..Len(sorted) :
                 \A i \in 1..Len(sorted) :
                    sorted[i].status = IF i <= m THEN "completed" ELSE "pending"}
    IN  IF ms = {} THEN -1 ELSE CHOOSE m \in ms : TRUE

\* the numbers of the records after the first m, ascending
NumbersAfter(stages, m) ==
    LET sorted == SortedStages(stages)
    IN  [i \in 1..(Len(sorted) - m) |-> sorted[i + m].number]

NewRun(kind, run, resume_book, prev) ==
    [kind |-> kind, pc |-> "begin", run |-> run, resume_book |-> resume_book,
     resume_from |-> 1, plan |-> NoPlan, book_token |-> resume_book,
     todo |-> <<>>, round |-> 1, log |-> <<>>, calls |-> <<>>, last |-> NoCall,
     loaded |-> FALSE, prefix |-> -1, expected |-> <<>>,
     books_created |-> 0, writes |-> 0, failed_stage |-> 0, prev |-> prev,
     events |-> <<>>, r1 |-> "none", r1_session_id |-> "", r2_resume |-> "unset",
     member_raised |-> 0, external_plan |-> NoPlan, planned |-> <<>>,
     load_failed |-> "none"]

NoPrev == [fresh |-> FALSE, failed_stage |-> 0]

\* the remote store may fail a call, MaxFaults times in a behaviour
Outcomes == IF remote.faults < MaxFaults THEN BOOLEAN ELSE {TRUE}

Charge(r, ok) == IF ok THEN r ELSE [r EXCEPT !.faults = @ + 1]

NewRemote(book, plan) == [book |-> book, plan |-> plan, snapshot |-> 0, faults |-> 0]

\* the session ids a worker can report ("" = none)
SessionIds == {"", "sess1"}

\* the mutation of ChainSession: the second round starts a fresh conversation
FreshSession(has_result, session_id) == ""

\* "r1_result.session_id if r1_result else ''" (the generic orchestrator reads
\* r1_result.session_id of a result it always has)
ChainSession(has_result, session_id) == IF has_result THEN session_id ELSE ""

\* "except Exception as e": emitter.error, emitter.pipeline_complete(success =
\* False), raise; the tracker is not touched
RaiseOut(o, stage) ==
    [o EXCEPT !.pc = "raised", !.failed_stage = stage,
              !.events = @ \o <<"error", "pipeline_complete_failed">>]

OrchInit ==
    /\ \E kind \in {"generic", "mystery"} :
          \/ /\ orch = NewRun(kind, 1, "", NoPrev)
             /\ remote = NewRemote(FALSE, NoPlan)
             /\ progress_md = <<>>
          \/ /\ orch = NewRun(kind, 1, "bk", NoPrev)
             /\ \E p \in IF kind = "generic" THEN GenericPlans ELSE {MysteryPlan} :
                   /\ \/ progress_md = <<>>
                      \/ \E m \in 0..Len(TrackerNumbers(p)) :
                            progress_md = RenderMarkdown(GivenTracker(p, m))
                   /\ \/ remote = NewRemote(TRUE, IF kind = "generic" THEN p ELSE NoPlan)
                      \/ remote = NewRemote(TRUE, NoPlan)
    /\ tracker = NewTracker("", <<>>)
    /\ clock = 0 /\ ops = 0
    /\ NsIdle /\ StreamIdle /\ RunnerIdle /\ CtxIdle

\* _load_plan_from_book and _restore_context_snapshot end in "except
\* Exception" with a log line: run() sees None, or a context left as it was
LoadFailed(plan_failed, snapshot_failed) ==
    IF plan_failed THEN "plan" ELSE IF snapshot_failed THEN "snapshot" ELSE "none"

\* run() up to the planning stage: emitter.pipeline_start, plan =
\* external_plan; on a resume,
\* load_from_book, next_stage(), the early return, and (generic) "resume_from,
\* plan = await self._handle_resume(resume_book)" with _load_plan_from_book
OBegin ==
    /\ orch.pc = "begin" /\ orch.kind # "worldbuild"
    /\ IF orch.resume_book = ""
       THEN /\ orch' = [orch EXCEPT !.pc = "planning",
                           !.events = <<"pipeline_start">>,
                           !.plan = IF orch.kind = "mystery" THEN MysteryPlan
                                    ELSE orch.external_plan]
            /\ UNCHANGED remote
       ELSE \E read_ok \in BOOLEAN, plan_ok \in BOOLEAN, snapshot_ok \in BOOLEAN :
              LET have == read_ok /\ progress_md # <<>>
                  fails == (IF read_ok THEN 0 ELSE 1) + (IF plan_ok THEN 0 ELSE 1)
                           + (IF snapshot_ok THEN 0 ELSE 1)
                  parsed == ParseMarkdown(progress_md)
                  rf == IF have THEN NextStage(parsed.stages) ELSE 1
                  m == IF have THEN PrefixOf(parsed.stages) ELSE -1
                  restores == /\ ~(have /\ ResumeDone(rf))
                              /\ orch.kind = "generic" => (plan_ok /\ remote.plan # NoPlan)
                  seen == [orch EXCEPT !.resume_from = rf, !.loaded = have, !.prefix = m,
                              !.events = <<"pipeline_start">>,
                              !.expected = IF m >= 0 THEN NumbersAfter(parsed.stages, m)
                                           ELSE <<>>,
                              !.load_failed = LoadFailed(remote.plan # NoPlan /\ ~plan_ok,
                                                         ~snapshot_ok)]
              IN  /\ remote.faults + fails <= MaxFaults
                  /\ (orch.kind = "mystery" \/ (have /\ ResumeDone(rf))) => plan_ok
                  /\ ~restores => snapshot_ok
                  /\ remote' = [remote EXCEPT !.faults = @ + fails]
                  /\ IF have /\ ResumeDone(rf)
                     THEN orch' = [seen EXCEPT !.pc = "returned"]
                     ELSE orch' = [seen EXCEPT !.pc = "planning",
                                     !.plan = IF orch.kind = "mystery" THEN MysteryPlan
                                              ELSE IF plan_ok THEN remote.plan ELSE NoPlan]
    /\ UNCHANGED <<trackerVars, nsVars, stream, ctx, runnerVars>>

\* the mutation of RetryPlanning: the planner is run again whatever it gave
RetryAlways(planner_result) == planner_result # "raised"

\* "if not planner.plan: result = await planner.run()" (generic), "if not
\* result.full_output.strip(): result = await planner.run()" (mystery)
RetryPlanning(planner_result) == planner_result = "noplan"

\* what one planner.run() gives: a usable plan, an unusable text, or an exception
PlannerResult(outcome, usable) ==
    IF StageAgentOutcome("none", outcome) # "result" THEN "raised"
    ELSE IF usable THEN "plan" ELSE "noplan"

\* _run_planning / the planning block of the mystery run(): the planner runs, a
\* second time if the first output is unusable; two unusable outputs are an error
OPlanning ==
    /\ orch.pc = "planning" /\ orch.kind # "worldbuild"
    /\ IF orch.resume_from <= 1 /\ (orch.kind = "mystery" \/ orch.plan = NoPlan)
       THEN \E o1 \in RunnerOutcomes, o2 \in RunnerOutcomes, u1 \in BOOLEAN, u2 \in BOOLEAN :
              LET r1 == PlannerResult(o1, u1)
                  r2 == PlannerResult(o2, u2)
                  call(o) == [stage |-> 1, tool_set |-> "none", outcome |-> o,
                              agent |-> StageAgentOutcome("none", o), left |-> 0]
                  made == IF RetryPlanning(r1) THEN <<call(o1), call(o2)>> ELSE <<call(o1)>>
                  final == IF RetryPlanning(r1) THEN r2 ELSE r1
                  ran == [orch EXCEPT !.log = Append(@, 1),
                                      !.planned = IF RetryPlanning(r1) THEN <<r1, r2>>
                                                  ELSE <<r1>>,
                                      !.calls = @ \o [i \in 1..Len(made) |-> 1],
                                      !.last = made[Len(made)]]
              IN  IF final = "plan"
                  THEN \E p \in IF orch.kind = "mystery" THEN {MysteryPlan}
                                 ELSE GenericPlans \cup OddPlans :
                          orch' = [ran EXCEPT !.pc = "book_setup", !.plan = p]
                  ELSE orch' = RaiseOut(ran, 1)
       ELSE IF orch.plan = NoPlan
            THEN orch' = RaiseOut(orch, 1)
            ELSE orch' = [orch EXCEPT !.pc = "book_setup"]
    /\ UNCHANGED <<remote, trackerVars, nsVars, stream, ctx, runnerVars>>

\* _setup_book / the book-setup block: create_book unless a token is at hand,
\* then create_file for the plan (generic) and the concept overview
OBookSetup ==
    /\ orch.pc = "book_setup" /\ orch.kind # "worldbuild"
    /\ IF orch.resume_from <= 2
       THEN \E fail \in {"none"} \cup (IF remote.faults < MaxFaults
                                        THEN {"create_book", "create_file"} ELSE {}) :
              LET creates == orch.book_token = ""
                  n_files == IF orch.kind = "generic" THEN 2 ELSE 1
                  ran == [orch EXCEPT !.log = Append(@, 2)]
              IN  /\ fail = "create_book" => creates
                  /\ IF fail = "create_book"
                     THEN /\ orch' = RaiseOut(ran, 2)
                          /\ remote' = Charge(remote, FALSE)
                     ELSE IF fail = "create_file"
                     THEN /\ orch' = RaiseOut([ran EXCEPT !.book_token = "bk",
                                         !.books_created = IF creates THEN @ + 1 ELSE @,
                                         !.writes = @ + 1], 2)
                          /\ remote' = [Charge(remote, FALSE) EXCEPT !.book = TRUE]
                     ELSE /\ orch' = [ran EXCEPT !.pc = "tracker_init",
                                         !.book_token = "bk",
                                         !.books_created = IF creates THEN @ + 1 ELSE @,
                                         !.writes = @ + n_files]
                          /\ remote' = [remote EXCEPT !.book = TRUE,
                                           !.plan = IF orch.kind = "generic" THEN orch.plan ELSE @]
       ELSE /\ orch' = [orch EXCEPT !.pc = "tracker_init"]
            /\ UNCHANGED remote
    /\ UNCHANGED <<trackerVars, nsVars, stream, ctx, runnerVars>>

\* the tracker is built, the stages before resume_from are marked completed, and
\* tracker.start() writes the first progress document
OTrackerSetup ==
    /\ orch.pc = "tracker_init" /\ orch.kind # "worldbuild"
    /\ \E ok \in Outcomes :
          LET todo == SelectSeq(StageBlocks(orch.plan),
                                LAMBDA b : ShouldRun(orch.resume_from, b.number))
          IN  /\ tracker' = [CreateTracker(orch.plan, orch.resume_from) EXCEPT
                                !.status = "running", !.started_at = clock]
              /\ progress_md' = WriteProgress(tracker', ok)
              /\ remote' = Charge(remote, ok)
              /\ orch' = [orch EXCEPT !.todo = todo, !.writes = @ + 1,
                             !.pc = IF todo = <<>> THEN "complete" ELSE "stage_start"]
    /\ UNCHANGED <<clock, ops, nsVars, stream, ctx, runnerVars>>

\* tracker.stage_start(n) at the head of a stage block
OStageStart ==
    /\ orch.pc = "stage_start" /\ orch.kind # "worldbuild"
    /\ \E ok \in Outcomes :
          LET n == Head(orch.todo).number
          IN  /\ tracker' = StageStartOp(tracker, n)
              /\ progress_md' = WriteProgress(tracker', ok)
              /\ remote' = Charge(remote, ok)
              /\ orch' = [orch EXCEPT !.pc = "stage_run", !.round = 1,
                             !.log = Append(@, n), !.writes = @ + 1]
    /\ UNCHANGED <<clock, ops, nsVars, stream, ctx, runnerVars>>

\* the blocks that list the files of the book around the agent's run and for
\* the structure injection: _get_all_file_paths and _inject_book_structure, each
\* "try: get_book_structure ... except Exception", so a failed listing changes
\* nothing but the notifications
ListsFiles(kind, role) == kind = "mystery" \/ role # "validation"

\* agent.run() of the stage's agent (_run_writer_stage, _run_stage); validation
\* runs two agents in turn (_run_validation), the second built with the session
\* id of the first one's result; an exception leaves run()
OStageRun(outcome, session_id) ==
    /\ orch.pc = "stage_run" /\ orch.kind # "worldbuild"
    /\ \E listing_ok \in Outcomes :
          /\ ~ListsFiles(orch.kind, Head(orch.todo).role) => listing_ok
          /\ remote' = Charge(remote, listing_ok)
    /\ LET b == Head(orch.todo)
           agent == StageAgentOutcome(b.tool_set, outcome)
           first == b.role = "validation" /\ orch.round = 1
           call == [stage |-> b.number, tool_set |-> b.tool_set,
                    outcome |-> outcome, agent |-> agent, left |-> Len(orch.todo)]
           ran == [orch EXCEPT !.calls = Append(@, b.number), !.last = call]
       IN  /\ session_id # "" => (first /\ agent # "raised")
           /\ orch' = IF agent = "raised"
                      THEN RaiseOut(ran, b.number)
                      ELSE IF first
                      THEN [ran EXCEPT !.round = 2, !.r1 = "returned",
                               !.r1_session_id = session_id,
                               !.r2_resume = ChainSession(TRUE, session_id)]
                      ELSE [ran EXCEPT !.pc = "stage_complete"]
    /\ UNCHANGED <<trackerVars, nsVars, stream, ctx, runnerVars>>

\* the stage block is left: the next block, or tracker.complete()
Advance(o) ==
    [o EXCEPT !.todo = Tail(@),
              !.pc = IF Tail(o.todo) = <<>> THEN "complete" ELSE "stage_start"]

\* tracker.stage_complete(n); a writing stage goes on to save the snapshot (the
\* results of the validation rounds are not read again)
OStageComplete ==
    /\ orch.pc = "stage_complete" /\ orch.kind # "worldbuild"
    /\ \E ok \in Outcomes :
          LET b == Head(orch.todo)
              wrote == [orch EXCEPT !.writes = @ + 1, !.r1 = "none",
                           !.r1_session_id = "", !.r2_resume = "unset"]
          IN  /\ tracker' = StageCompleteOp(tracker, b.number, <<>>)
              /\ progress_md' = WriteProgress(tracker', ok)
              /\ remote' = Charge(remote, ok)
              /\ orch' = IF b.role = "writer" THEN [wrote EXCEPT !.pc = "snapshot"]
                         ELSE Advance(wrote)
    /\ UNCHANGED <<clock, ops, nsVars, stream, ctx, runnerVars>>

\* the mutation of SnapshotDone: a failed write leaves run()
SnapshotRaises(o, ok) == IF ok THEN Advance(o) ELSE RaiseOut(o, Head(o.todo).number)

\* "except Exception as e: logger.warning(...)": the block is left either way
SnapshotDone(o, ok) == Advance(o)

\* _save_context_snapshot: write_file, a failure is logged and swallowed
OSnapshot ==
    /\ orch.pc = "snapshot" /\ orch.kind # "worldbuild"
    /\ \E ok \in Outcomes :
          /\ remote' = [Charge(remote, ok) EXCEPT
                           !.snapshot = IF ok THEN Head(orch.todo).number ELSE @]
          /\ orch' = SnapshotDone([orch EXCEPT !.writes = @ + 1], ok)
    /\ UNCHANGED <<trackerVars, nsVars, stream, ctx, runnerVars>>

\* tracker.complete(), then run() returns the book token
OComplete ==
    /\ orch.pc = "complete" /\ orch.kind # "worldbuild"
    /\ \E ok \in Outcomes :
          /\ tracker' = [tracker EXCEPT !.status = "completed"]
          /\ progress_md' = WriteProgress(tracker', ok)
          /\ remote' = Charge(remote, ok)
          /\ orch' = [orch EXCEPT !.pc = "returned", !.writes = @ + 1,
                         !.events = Append(@, "pipeline_complete_ok")]
    /\ UNCHANGED <<clock, ops, nsVars, stream, ctx, runnerVars>>

\* the user runs the command again with resume_book = the book of the last run
OResume ==
    /\ orch.pc \in {"returned", "raised"} /\ orch.kind # "worldbuild"
    /\ orch.run < MaxRuns
    /\ orch.book_token # ""
    /\ orch' = [NewRun(orch.kind, orch.run + 1, orch.book_token,
                       [fresh |-> orch.resume_book = "", failed_stage |-> orch.failed_stage])
                EXCEPT !.external_plan = orch.external_plan]
    /\ tracker' = NewTracker("", <<>>)
    /\ UNCHANGED <<remote, progress_md, clock, ops, nsVars, stream, ctx, runnerVars>>

OrchNext ==
    \/ OBegin
    \/ OPlanning
    \/ OBookSetup
    \/ OTrackerSetup
    \/ OStageStart
    \/ \E o \in RunnerOutcomes, sid \in SessionIds : OStageRun(o, sid)
    \/ OStageComplete
    \/ OSnapshot
    \/ OComplete
    \/ OResume

SpecOrch == OrchInit /\ [][OrchNext]_vars

\* GenericOrchestrator.run(prompt, resume_book, external_plan) with a plan
\* supplied by the caller: a fresh run, or a resume against a book that holds
\* any plan or none, and any progress document or none
ExternalInit ==
    /\ \E external_plan \in GenericPlans :
          \/ /\ orch = [NewRun("generic", 1, "", NoPrev) EXCEPT
                           !.external_plan = external_plan]
             /\ remote = NewRemote(FALSE, NoPlan)
             /\ progress_md = <<>>
          \/ /\ orch = [NewRun("generic", 1, "bk", NoPrev) EXCEPT
                           !.external_plan = external_plan]
             /\ \E p \in GenericPlans :
                   /\ \/ progress_md = <<>>
                      \/ \E m \in 0..Len(TrackerNumbers(p)) :
                            progress_md = RenderMarkdown(GivenTracker(p, m))
                   /\ \/ remote = NewRemote(TRUE, p)
                      \/ remote = NewRemote(TRUE, NoPlan)
    /\ tracker = NewTracker("", <<>>)
    /\ clock = 0 /\ ops = 0
    /\ NsIdle /\ StreamIdle /\ RunnerIdle /\ CtxIdle

SpecExternal == ExternalInit /\ [][OrchNext]_vars

\* =========================================== the worldbuild orchestrator
\* worldbuild/orchestrator.py: OrchestratorAgent.run and _run_phase.  A phase
\* runs its agents with asyncio.gather; an agent is a member whose whole
\* BaseAgent.run is one step here, with the outcomes ClaudeRunner.run can have.

\* the stages run() declares to the tracker
WorldStageNumbers == [i \in 1..12 |-> i]

\* the blocks of run() after the tracker is set up: a file written by run()
\* itself, or a phase of agents; inject/snapshot as the code calls them
WorldBlocks ==
    <<[number |-> 3,  role |-> "file",  agents |-> 0, snapshot |-> FALSE],
      [number |-> 4,  role |-> "phase", agents |-> 3, snapshot |-> TRUE],
      [number |-> 5,  role |-> "phase", agents |-> 2, snapshot |-> TRUE],
      [number |-> 6,  role |-> "phase", agents |-> 1, snapshot |-> TRUE],
      [number |-> 7,  role |-> "phase", agents |-> 3, snapshot |-> TRUE],
      [number |-> 8,  role |-> "phase", agents |-> 1, snapshot |-> TRUE],
      [number |-> 9,  role |-> "file",  agents |-> 0, snapshot |-> FALSE],
      [number |-> 10, role |-> "phase", agents |-> 1, snapshot |-> FALSE],
      [number |-> 11, role |-> "phase", agents |-> 1, snapshot |-> FALSE],
      [number |-> 12, role |-> "file",  agents |-> 0, snapshot |-> FALSE]>>

\* the two validation rounds of the worldbuild pipeline
ValidationR1 == 10
ValidationR2 == 11

WorldInit ==
    /\ orch = NewRun("worldbuild", 1, "", NoPrev)
    /\ remote = NewRemote(FALSE, NoPlan)
    /\ tracker = NewTracker("", <<>>) /\ progress_md = <<>>
    /\ clock = 0 /\ ops = 0
    /\ NsIdle /\ StreamIdle /\ RunnerIdle /\ CtxIdle

\* stage 1: ResearchAgent (no tools) runs, once more if its output is blank; an
\* exception or a second blank output leaves run()
WResearch ==
    /\ orch.pc = "begin" /\ orch.kind = "worldbuild"
    /\ \E o1 \in RunnerOutcomes, o2 \in RunnerOutcomes, blank1 \in BOOLEAN, blank2 \in BOOLEAN :
          LET a1 == StageAgentOutcome("none", o1)
              a2 == StageAgentOutcome("none", o2)
              ok == IF a1 = "raised" THEN FALSE
                    ELSE IF ~blank1 THEN TRUE
                    ELSE a2 # "raised" /\ ~blank2
              ran == [orch EXCEPT !.log = Append(@, 1),
                         !.calls = @ \o (IF a1 # "raised" /\ blank1 THEN <<1, 1>> ELSE <<1>>)]
          IN  orch' = IF ok THEN [ran EXCEPT !.pc = "book_setup"] ELSE RaiseOut(ran, 1)
    /\ UNCHANGED <<remote, trackerVars, nsVars, stream, ctx, runnerVars>>

\* stage 2: slima.create_book
WCreateBook ==
    /\ orch.pc = "book_setup" /\ orch.kind = "worldbuild"
    /\ \E ok \in Outcomes :
          /\ remote' = IF ok THEN [remote EXCEPT !.book = TRUE] ELSE Charge(remote, ok)
          /\ orch' = IF ok
                     THEN [orch EXCEPT !.pc = "tracker_init", !.book_token = "bk",
                              !.books_created = @ + 1, !.log = Append(@, 2)]
                     ELSE RaiseOut([orch EXCEPT !.log = Append(@, 2)], 2)
    /\ UNCHANGED <<trackerVars, nsVars, stream, ctx, runnerVars>>

\* the tracker: twelve stages, 1 and 2 marked completed by hand, tracker.start()
WTrackerSetup ==
    /\ orch.pc = "tracker_init" /\ orch.kind = "worldbuild"
    /\ \E ok \in Outcomes :
          /\ tracker' = [MarkCompletedBefore(
                             DefineStagesOp(NewTracker("worldbuild", <<"p">>), WorldStageNumbers), 3)
                         EXCEPT !.status = "running", !.started_at = clock]
          /\ progress_md' = WriteProgress(tracker', ok)
          /\ remote' = Charge(remote, ok)
          /\ orch' = [orch EXCEPT !.todo = WorldBlocks, !.writes = @ + 1, !.pc = "stage_start"]
    /\ UNCHANGED <<clock, ops, nsVars, stream, ctx, runnerVars>>

\* tracker.stage_start(n) at the head of a block
WStageStart ==
    /\ orch.pc = "stage_start" /\ orch.kind = "worldbuild"
    /\ \E ok \in Outcomes :
          LET b == Head(orch.todo)
          IN  /\ tracker' = StageStartOp(tracker, b.number)
              /\ progress_md' = WriteProgress(tracker', ok)
              /\ remote' = Charge(remote, ok)
              /\ orch' = [orch EXCEPT !.log = Append(@, b.number), !.writes = @ + 1,
                             !.pc = IF b.role = "file" THEN "file" ELSE "phase_start"]
    /\ UNCHANGED <<clock, ops, nsVars, stream, ctx, runnerVars>>

\* the overview, the glossary or the README: slima.create_file, which may raise
WFile ==
    /\ orch.pc = "file" /\ orch.kind = "worldbuild"
    /\ \E ok \in Outcomes :
          /\ remote' = Charge(remote, ok)
          /\ orch' = IF ok THEN [orch EXCEPT !.pc = "stage_complete", !.writes = @ + 1]
                     ELSE RaiseOut(orch, Head(orch.todo).number)
    /\ UNCHANGED <<trackerVars, nsVars, stream, ctx, runnerVars>>

\* _run_phase up to the gather: one coroutine per agent; the agent of the second
\* validation round is built with the session id of the first round's result
WPhaseStart ==
    /\ orch.pc = "phase_start" /\ orch.kind = "worldbuild"
    /\ LET b == Head(orch.todo)
       IN  /\ members' = [m \in 1..b.agents |-> NewMember(ToolSets["write"])]
           /\ phase_pc' = "gather"
           /\ orch' = [orch EXCEPT !.pc = "phase_wait",
                          !.r2_resume = IF b.number = ValidationR2
                                        THEN ChainSession(orch.r1 = "returned", orch.r1_session_id)
                                        ELSE @]
    /\ UNCHANGED <<remote, trackerVars, nsVars, stream, ctx>>

\* _run_one: emitter.agent_start, then agent.run() is awaited
WAgentStart(m) ==
    /\ orch.kind = "worldbuild"
    /\ members[m].pc = "created"
    /\ members' = [members EXCEPT ![m].pc = "running"]
    /\ UNCHANGED <<phase_pc, trackerVars, nsVars, stream, ctx, orchVars>>

\* agent.run() returns or raises; _run_one re-raises what it caught
WAgentEnd(m, outcome) ==
    /\ orch.kind = "worldbuild"
    /\ members[m].pc = "running"
    /\ members' = [members EXCEPT ![m] = Finish(@, outcome)]
    /\ UNCHANGED <<phase_pc, trackerVars, nsVars, stream, ctx, orchVars>>

\* the gather returns; exceptions among the results are printed and dropped,
\* the AgentResults are returned, and run() goes on (inject_book_structure
\* swallows its own failures)
WPhaseReturn ==
    /\ orch.pc = "phase_wait" /\ orch.kind = "worldbuild" /\ phase_pc = "gather"
    /\ GatherDone(members)
    /\ \E session_id \in SessionIds :
          LET b == Head(orch.todo)
              raised == {m \in Members : members[m].agent = "raised"}
              agent_results == Members \ raised
          IN  /\ (session_id # "") => (b.number = ValidationR1 /\ agent_results # {})
              /\ orch' = [orch EXCEPT
                    !.pc = "stage_complete",
                    !.calls = @ \o [i \in 1..Len(members) |-> b.number],
                    !.member_raised = IF @ = 0 /\ raised # {} THEN b.number ELSE @,
                    !.r1 = IF b.number # ValidationR1 THEN @
                           ELSE IF agent_results # {} THEN "returned" ELSE "raised",
                    !.r1_session_id = IF b.number = ValidationR1 THEN session_id ELSE @]
    /\ phase_pc' = "returned"
    /\ UNCHANGED <<members, remote, trackerVars, nsVars, stream, ctx>>

\* tracker.stage_complete(n)
WStageComplete ==
    /\ orch.pc = "stage_complete" /\ orch.kind = "worldbuild"
    /\ \E ok \in Outcomes :
          LET b == Head(orch.todo)
              wrote == [orch EXCEPT !.writes = @ + 1]
          IN  /\ tracker' = StageCompleteOp(tracker, b.number, <<>>)
              /\ progress_md' = WriteProgress(tracker', ok)
              /\ remote' = Charge(remote, ok)
              /\ orch' = IF b.snapshot THEN [wrote EXCEPT !.pc = "snapshot"]
                         ELSE Advance(wrote)
    /\ UNCHANGED <<clock, ops, nsVars, stream, ctx, runnerVars>>

\* _save_context_snapshot: write_file, a failure is logged and swallowed
WSnapshot ==
    /\ orch.pc = "snapshot" /\ orch.kind = "worldbuild"
    /\ \E ok \in Outcomes :
          /\ remote' = [Charge(remote, ok) EXCEPT
                           !.snapshot = IF ok THEN Head(orch.todo).number ELSE @]
          /\ orch' = Advance([orch EXCEPT !.writes = @ + 1])
    /\ UNCHANGED <<trackerVars, nsVars, stream, ctx, runnerVars>>

\* tracker.complete(), pipeline_complete(success = True), return book_token
WComplete ==
    /\ orch.pc = "complete" /\ orch.kind = "worldbuild"
    /\ \E ok \in Outcomes :
          /\ tracker' = [tracker EXCEPT !.status = "completed"]
          /\ progress_md' = WriteProgress(tracker', ok)
          /\ remote' = Charge(remote, ok)
          /\ orch' = [orch EXCEPT !.pc = "returned", !.writes = @ + 1,
                         !.events = Append(@, "pipeline_complete_ok")]
    /\ UNCHANGED <<clock, ops, nsVars, stream, ctx, runnerVars>>

WorldNext ==
    \/ WResearch
    \/ WCreateBook
    \/ WTrackerSetup
    \/ WStageStart
    \/ WFile
    \/ WPhaseStart
    \/ \E m \in Members : WAgentStart(m)
    \/ \E m \in Members, o \in RunnerOutcomes : WAgentEnd(m, o)
    \/ WPhaseReturn
    \/ WStageComplete
    \/ WSnapshot
    \/ WComplete

SpecWorld == WorldInit /\ [][WorldNext]_vars

\* ------------------------------------------------ claims: orchestrators
IsPrefix(a, b) == Len(a) <= Len(b) /\ a = SubSeq(b, 1, Len(a))

Range(seq) == {seq[i] : i \in 1..Len(seq)}

StatusOf(n) ==
    LET i == Find(tracker.stages, n)
    IN  IF i = 0 THEN "none" ELSE tracker.stages[i].status

\* C1: when a fresh run was interrupted because stage k failed, a resume with
\* the same book reads k as the resume ordinal from the persisted progress
\* document and invokes no worker for a stage before k.
C1_ResumeAtFailedStage ==
    (/\ orch.run > 1 /\ orch.prev.fresh /\ orch.prev.failed_stage >= 3
     /\ orch.loaded /\ remote.faults = 0 /\ orch.pc # "begin")
    => /\ orch.resume_from = orch.prev.failed_stage
       /\ \A i \in 1..Len(orch.calls) : orch.calls[i] >= orch.prev.failed_stage

C3_AllDoneReturnsAtOnce ==
    (/\ orch.resume_book # "" /\ orch.loaded /\ orch.resume_from = DoneSentinel
     /\ orch.pc # "begin")
    => /\ orch.pc = "returned"
       /\ orch.book_token = orch.resume_book
       /\ orch.calls = <<>> /\ orch.log = <<>>
       /\ orch.books_created = 0 /\ orch.writes = 0

\* a resume against a book whose progress document lists five or more stages,
\* all completed, has returned
C3_Witness ==
    /\ orch.pc = "returned" /\ orch.resume_book # "" /\ orch.loaded
    /\ orch.resume_from = DoneSentinel
    /\ LET stages == ParseMarkdown(progress_md).stages
       IN  Len(stages) >= 5 /\ \A i \in 1..Len(stages) : stages[i].status = "completed"

C14_FailureIsRecorded ==
    (/\ orch.kind # "worldbuild" /\ orch.pc = "raised"
     /\ orch.failed_stage >= 3 /\ orch.last.agent = "raised")
    => /\ StatusOf(orch.failed_stage) = "failed"
       /\ tracker.status = "failed"
       /\ Len(orch.events) >= 2
       /\ SubSeq(orch.events, Len(orch.events) - 1, Len(orch.events))
             = <<"error", "pipeline_complete_failed">>
       /\ \A i \in 1..Len(orch.log) : orch.log[i] <= orch.failed_stage

\* C15: within one run the stage blocks (plan stages, validation and polish
\* alike) are entered in strictly ascending ordinal order, each only after the
\* one before has been marked completed, and a stage is marked running in the
\* tracker before its worker is invoked.
C15_AscendingStageOrder ==
    orch.kind # "worldbuild" =>
        /\ \A i, j \in 1..Len(orch.log) : i < j => orch.log[i] < orch.log[j]
        /\ orch.pc = "stage_run" =>
              /\ StatusOf(Head(orch.todo).number) = "running"
              /\ \A i \in 1..(Len(orch.log) - 1) :
                    orch.log[i] >= 3 => StatusOf(orch.log[i]) = "completed"

C12_PhaseFailureAborts ==
    orch.member_raised # 0 =>
        /\ orch.pc = "raised" /\ orch.failed_stage = orch.member_raised
        /\ StatusOf(orch.member_raised) # "completed"
        /\ \A i \in 1..Len(orch.log) : orch.log[i] <= orch.member_raised

\* C13: the member invocations of a phase are created only when every member
\* invocation of the phase before has resolved (returned or raised), and an
\* invocation starts only while run() awaits its own phase.
C13_PhasesInOrder ==
    [][/\ (\E m \in DOMAIN members' :
              /\ members'[m].pc = "created"
              /\ m \notin DOMAIN members \/ members[m].pc # "created")
          => \A m \in DOMAIN members : members[m].pc = "done"
       /\ \A m \in DOMAIN members \cap DOMAIN members' :
             (members[m].pc = "created" /\ members'[m].pc = "running")
                => orch.pc = "phase_wait" /\ phase_pc = "gather"]_vars

\* a member of phase 5 is running after phase 4 resolved with one member that
\* raised and two that returned
C13_Witness ==
    /\ orch.kind = "worldbuild" /\ orch.pc = "phase_wait"
    /\ Head(orch.todo).number = 5 /\ orch.member_raised = 4
    /\ StatusOf(4) = "completed"
    /\ \E m \in Members : members[m].pc = "running"

\* -------------------------------------------------- claims: planning
\* the planner invocations among the worker calls of the run
PlannerCalls == Cardinality({i \in 1..Len(orch.calls) : orch.calls[i] = 1})

\* C23: without an external plan the planning worker is invoked at most twice
\* in a run, the second time only after a first output without a valid plan;
\* when the second gives none either, run() has failed at the planning stage
\* with no book created and no stage run.
C23_PlanningAtMostTwice ==
    (orch.kind # "worldbuild" /\ orch.external_plan = NoPlan) =>
        /\ PlannerCalls = Len(orch.planned)
        /\ Len(orch.planned) <= 2
        /\ Len(orch.planned) = 2 => orch.planned[1] = "noplan"
        /\ (Len(orch.planned) = 2 /\ orch.planned[2] # "plan") =>
              /\ orch.pc = "raised" /\ orch.failed_stage = 1
              /\ orch.books_created = 0
              /\ \A i \in 1..Len(orch.log) : orch.log[i] = 1

\* a fresh generic run whose planner gave no valid plan twice
C23_Witness ==
    /\ orch.kind = "generic" /\ orch.resume_book = ""
    /\ orch.planned = <<"noplan", "noplan">>
    /\ PlannerCalls = 2
    /\ orch.pc = "raised"

\* C24: with an external plan the planning worker is never invoked and the
\* stage blocks of the run are those of that plan, on a resume as on a fresh run
C24_ExternalPlanIsUsed ==
    orch.external_plan # NoPlan =>
        /\ orch.planned = <<>> /\ PlannerCalls = 0
        /\ orch.pc \in {"book_setup", "tracker_init", "stage_start", "stage_run",
                         "stage_complete", "snapshot", "complete"}
              => orch.plan = orch.external_plan

\* ============================================== the working contexts
\* the tasks of sibling stages that call one context
CtxTasks == {"t1", "t2"}

\* calls and restores made on one context
MaxCtxOps == 3

BOOK == "book_structure"

\* WorldContext.SECTIONS and MysteryContext.SECTIONS, first and last name of each
WorldSections == <<"overview", BOOK>>

MysterySections == <<"concept", BOOK>>

\* the section lists a plan can carry (PipelinePlan.context_sections)
PlanSections == {<<"concept">>, <<BOOK, "concept">>, <<"user_prompt">>}

\* every name a caller passes as section
SectionNames == {"overview", "concept", BOOK, "user_prompt", "bogus"}

\* what a task passes as content: nothing, or a text of its own
Contents(t) == {<<>>, IF t = "t1" THEN <<"a">> ELSE <<"b">>}

\* the sections a caller names: the declared ones, the one every context
\* should have, and one that no context has
CallNames(c) == {c.sections[i] : i \in 1..Len(c.sections)} \cup {BOOK, "bogus"}

UserPrompts == {<<>>, <<"P">>}

\* tuple(dict.fromkeys(names)): first occurrences, in order
RECURSIVE FromKeys(_)
FromKeys(names) ==
    IF names = <<>> THEN <<>>
    ELSE LET front == FromKeys(SubSeq(names, 1, Len(names) - 1))
             last == names[Len(names)]
         IN  IF \E i \in 1..Len(front) : front[i] = last THEN front
             ELSE Append(front, last)

\* DynamicContext.__init__ / the dataclass defaults of the fixed contexts
NewContext(kind, allowed_sections, user_prompt) ==
    [kind |-> kind,
     sections |-> IF kind = "dynamic" THEN FromKeys(allowed_sections \o <<BOOK>>)
                  ELSE IF kind = "world" THEN WorldSections
                  ELSE MysterySections,
     data |-> [n \in SectionNames |-> <<>>],
     user_prompt |-> user_prompt]

Declared(c) == {c.sections[i] : i \in 1..Len(c.sections)}

\* a membership test that takes every name
AnySection(c, section) == TRUE

\* section in self._allowed_sections / section in self.SECTIONS
IsSection(c, section) == section \in Declared(c)

\* f"Unknown section: {section}. Valid: {', '.join(sections)}"
UnknownSection(c, section) ==
    <<"Unknown section: ", section, ". Valid: ">> \o JoinWith([i \in 1..Len(c.sections) |-> <<c.sections[i]>>], ", ")

\* append() without the empty case
AppendAlways(current, content) == current \o <<NL>> \o content

\* current + "\n" + content if current else content
Appended(current, content) ==
    IF current # <<>> THEN current \o <<NL>> \o content ELSE content

\* a dict as its items in insertion order
DictHas(d, k) == \E i \in 1..Len(d) : d[i][1] = k

DictGet(d, k, default) ==
    IF DictHas(d, k) THEN d[CHOOSE i \in 1..Len(d) : d[i][1] = k][2] ELSE default

DictPut(d, k, v) ==
    IF DictHas(d, k) THEN [i \in 1..Len(d) |-> IF d[i][1] = k THEN <<k, v>> ELSE d[i]]
    ELSE Append(d, <<k, v>>)

\* the non-empty sections of c, added to the dict in section order
RECURSIVE PutSections(_, _, _)
PutSections(d, c, sections) ==
    IF sections = <<>> THEN d
    ELSE LET value == c.data[Head(sections)]
         IN  PutSections(IF value # <<>> THEN DictPut(d, Head(sections), value) ELSE d,
                         c, Tail(sections))

PutPrompt(d, c) ==
    IF c.user_prompt # <<>> THEN DictPut(d, "user_prompt", c.user_prompt) ELSE d

MysteryToSnapshot(c) == PutSections(PutPrompt(<<>>, c), c, c.sections)

WorldToSnapshot(c) == PutSections(PutPrompt(<<>>, c), c, c.sections)

DynamicToSnapshot(c) ==
    PutSections(PutPrompt(<< <<"_allowed_sections", c.sections>> >>, c), c, c.sections)

ToSnapshot(c) ==
    IF c.kind = "dynamic" THEN DynamicToSnapshot(c)
    ELSE IF c.kind = "world" THEN WorldToSnapshot(c)
    ELSE MysteryToSnapshot(c)

\* json.dumps: an object whose members are strings, but for one array
JsonDumps(d) ==
    [i \in 1..Len(d) |->
        [name |-> d[i][1],
         type |-> IF d[i][1] = "_allowed_sections" THEN "array" ELSE "string",
         value |-> d[i][2]]]

\* json.loads: members in order, a repeated name keeps its last value
RECURSIVE JsonLoads(_)
JsonLoads(doc) ==
    IF doc = <<>> THEN <<>>
    ELSE LET last == doc[Len(doc)]
         IN  DictPut(JsonLoads(SubSeq(doc, 1, Len(doc) - 1)), last.name, last.value)

\* setattr / _data[section] = data[section] for the sections found in data
RestoreSections(c, data) ==
    [c EXCEPT !.data = [n \in SectionNames |->
                           IF n \in Declared(c) /\ DictHas(data, n)
                           THEN DictGet(data, n, <<>>) ELSE c.data[n]]]

MysteryFromSnapshot(c, data) ==
    RestoreSections([c EXCEPT !.user_prompt = DictGet(data, "user_prompt", <<>>)], data)

WorldFromSnapshot(c, data) ==
    RestoreSections([c EXCEPT !.user_prompt = DictGet(data, "user_prompt", <<>>)], data)

DynamicFromSnapshot(c, data) ==
    LET sections == IF DictHas(data, "_allowed_sections")
                    THEN DictGet(data, "_allowed_sections", <<>>)
                    ELSE c.sections
    IN  RestoreSections([c EXCEPT !.sections = sections,
                                  !.user_prompt = DictGet(data, "user_prompt", <<>>)],
                        data)

FromSnapshot(c, data) ==
    IF c.kind = "dynamic" THEN DynamicFromSnapshot(c, data)
    ELSE IF c.kind = "world" THEN WorldFromSnapshot(c, data)
    ELSE MysteryFromSnapshot(c, data)

\* snapshot maps that did not come from this context
IncomingMaps ==
    { <<>>,
      << <<"_allowed_sections", <<"concept">>>> >>,
      << <<"user_prompt", <<"Q">>>>, <<"concept", <<"c">>>>, <<"bogus", <<"q">>>> >> }

\* keys a stored snapshot may carry besides the ones to_snapshot wrote
ExtraKeys == {<<>>, << <<"bogus", <<"q">>>> >>}

IdleTask == [pc |-> "idle", op |-> "", section |-> "", content |-> <<>>,
             current |-> <<>>, result |-> <<>>]

\* a lock that never makes a caller wait
NoLock(lock) == TRUE

\* asyncio.Lock.acquire returns only while nobody holds the lock
LockFree(lock) == lock = ""

\* the state variable: the context object, its lock, its callers, and for
\* each section the value written last and the values appended since
CtxInit ==
    /\ \E kind \in {"world", "mystery", "dynamic"}, allowed \in PlanSections,
          user_prompt \in UserPrompts :
          /\ kind # "dynamic" => allowed = <<"concept">>
          /\ ctx = [pc |-> "live",
                    allowed |-> allowed,
                    obj |-> NewContext(kind, allowed, user_prompt),
                    hist |-> [n \in SectionNames |-> << <<>> >>],
                    lock |-> "",
                    tasks |-> [t \in CtxTasks |-> IdleTask],
                    ops |-> 0,
                    last |-> "new"]
    /\ tracker = NewTracker("worldbuild", <<"p">>) /\ progress_md = <<>>
    /\ clock = 0 /\ ops = 0
    /\ NsIdle /\ RunnerIdle /\ OrchIdle /\ StreamIdle

ctxRest == <<trackerVars, nsVars, runnerVars, orchVars, stream>>

\* a task calls read, write or append; an undeclared section returns at once
CtxCall(t, op, section, content) ==
    /\ ctx.pc = "live" /\ ctx.ops < MaxCtxOps
    /\ ctx.tasks[t].pc = "idle"
    /\ section \in CallNames(ctx.obj)
    /\ content \in Contents(t)
    /\ op = "read" => content = <<>>
    /\ IF ~IsSection(ctx.obj, section)
       THEN ctx' = [ctx EXCEPT !.ops = @ + 1, !.last = "call",
                               !.tasks[t] = [IdleTask EXCEPT
                                   !.op = op,
                                   !.result = UnknownSection(ctx.obj, section)]]
       ELSE ctx' = [ctx EXCEPT !.ops = @ + 1, !.last = "call",
                               !.tasks[t] = [IdleTask EXCEPT
                                   !.pc = "acquire", !.op = op,
                                   !.section = section, !.content = content]]
    /\ UNCHANGED ctxRest

\* async with self._lock
CtxAcquire(t) ==
    /\ ctx.pc = "live" /\ ctx.tasks[t].pc = "acquire"
    /\ LockFree(ctx.lock)
    /\ ctx' = [ctx EXCEPT !.lock = t, !.tasks[t].pc = "locked"]
    /\ UNCHANGED ctxRest

\* the first statement under the lock; read and write end here
CtxLocked(t) ==
    /\ ctx.pc = "live" /\ ctx.tasks[t].pc = "locked"
    /\ LET task == ctx.tasks[t]
           s == task.section
       IN  CASE task.op = "read" ->
                  ctx' = [ctx EXCEPT !.lock = "",
                                     !.tasks[t] = [IdleTask EXCEPT
                                         !.result = ctx.obj.data[s]]]
             [] task.op = "write" ->
                  ctx' = [ctx EXCEPT !.lock = "",
                                     !.obj.data[s] = task.content,
                                     !.hist[s] = <<task.content>>,
                                     !.tasks[t] = [IdleTask EXCEPT
                                         !.result = <<"Updated context section ", s>>]]
             [] task.op = "append" ->
                  ctx' = [ctx EXCEPT !.tasks[t].pc = "loaded",
                                     !.tasks[t].current = ctx.obj.data[s]]
    /\ UNCHANGED ctxRest

\* the second statement of append, and the release
CtxStore(t) ==
    /\ ctx.pc = "live" /\ ctx.tasks[t].pc = "loaded"
    /\ LET task == ctx.tasks[t]
           s == task.section
       IN  ctx' = [ctx EXCEPT !.lock = "",
                              !.obj.data[s] = Appended(task.current, task.content),
                              !.hist[s] = Append(@, task.content),
                              !.tasks[t] = [IdleTask EXCEPT
                                  !.result = <<"Appended to context section ", s>>]]
    /\ UNCHANGED ctxRest

Quiet == ctx.lock = "" /\ \A t \in CtxTasks : ctx.tasks[t].pc = "idle"

\* _save_context_snapshot, then _restore_context_snapshot into a new context
CtxRoundTrip(extra) ==
    /\ ctx.pc = "live" /\ ctx.ops < MaxCtxOps /\ Quiet
    /\ LET stored == JsonDumps(ToSnapshot(ctx.obj)) \o JsonDumps(extra)
           fresh == NewContext(ctx.obj.kind, ctx.allowed, <<>>)
           obj == FromSnapshot(fresh, JsonLoads(stored))
       IN  ctx' = [ctx EXCEPT !.obj = obj,
                              !.hist = [n \in SectionNames |-> <<obj.data[n]>>],
                              !.ops = @ + 1, !.last = "round_trip"]
    /\ UNCHANGED ctxRest

\* from_snapshot with a map read from the book
CtxFromSnapshot(data) ==
    /\ ctx.pc = "live" /\ ctx.ops < MaxCtxOps /\ Quiet
    /\ LET obj == FromSnapshot(ctx.obj, JsonLoads(JsonDumps(data)))
       IN  ctx' = [ctx EXCEPT !.obj = obj,
                              !.hist = [n \in SectionNames |-> <<obj.data[n]>>],
                              !.ops = @ + 1, !.last = "from_snapshot"]
    /\ UNCHANGED ctxRest

CtxNext ==
    \/ \E t \in CtxTasks, op \in {"read", "write", "append"}, section \in SectionNames :
          \E content \in Contents(t) : CtxCall(t, op, section, content)
    \/ \E t \in CtxTasks : CtxAcquire(t)
    \/ \E t \in CtxTasks : CtxLocked(t)
    \/ \E t \in CtxTasks : CtxStore(t)
    \/ \E extra \in ExtraKeys : CtxRoundTrip(extra)
    \/ \E data \in IncomingMaps : CtxFromSnapshot(data)

SpecContext == CtxInit /\ [][CtxNext]_vars

\* -------------------------------------------------- claims: contexts
RECURSIVE DropEmpty(_)
DropEmpty(parts) ==
    IF parts = <<>> THEN <<>>
    ELSE IF Head(parts) = <<>> THEN DropEmpty(Tail(parts))
    ELSE parts

\* the value written last, then the values appended since, one newline
\* between two of them, counted from the first value that is not empty
Expected(parts) == JoinWith(DropEmpty(parts), NL)

\* C25: read(s) of a declared section returns the last written value followed
\* by the values appended since, joined by one newline each; an append to an
\* empty section leaves exactly the appended value; a call on one section
\* leaves every other section as it was.
C25_ReadIsWrittenThenAppended ==
    [][ctx.pc = "live" =>
         /\ \A s \in Declared(ctx'.obj) : ctx'.obj.data[s] = Expected(ctx'.hist[s])
         /\ \A t \in CtxTasks :
               (ctx.tasks[t].pc = "locked" /\ ctx.tasks[t].op = "read"
                /\ ctx'.tasks[t].pc = "idle")
                  => ctx'.tasks[t].result = Expected(ctx.hist[ctx.tasks[t].section])
         /\ \A t \in CtxTasks, s \in SectionNames :
               (ctx'.tasks[t] # ctx.tasks[t] /\ ctx.tasks[t].section # s)
                  => ctx'.obj.data[s] = ctx.obj.data[s]]_vars

\* a section holds a written value and an appended one, another section an
\* appended value only
C25_Witness ==
    /\ ctx.pc = "live" /\ Quiet
    /\ \E s \in Declared(ctx.obj) :
          /\ Len(ctx.hist[s]) = 2 /\ ctx.hist[s][1] # <<>> /\ ctx.hist[s][2] # <<>>
          /\ ctx.obj.data[s] = ctx.hist[s][1] \o <<NL>> \o ctx.hist[s][2]
          /\ \E r \in Declared(ctx.obj) \ {s} :
                ctx.hist[r] = << <<>>, ctx.obj.data[r] >> /\ ctx.obj.data[r] # <<>>

\* C26: a read, write or append that names a section the context does not
\* declare returns the unknown-section message without raising and without
\* changing anything in the context; no call makes the declared set grow.
C26_UndeclaredSectionIsRefused ==
    [][ctx.pc = "live" =>
         \A t \in CtxTasks :
            (ctx.tasks[t].pc = "idle" /\ ctx'.tasks[t] # ctx.tasks[t]) =>
               /\ ctx'.obj = ctx.obj
               /\ \/ /\ ctx'.tasks[t].pc = "acquire"
                     /\ ctx'.tasks[t].section \in Declared(ctx.obj)
                  \/ /\ ctx'.tasks[t].pc = "idle"
                     /\ \E section \in SectionNames \ Declared(ctx.obj) :
                           ctx'.tasks[t].result = UnknownSection(ctx.obj, section)]_vars

\* an append that named an undeclared section has returned the message, in a
\* context that holds something
C26_Witness ==
    /\ ctx.pc = "live"
    /\ \E t \in CtxTasks :
          /\ ctx.tasks[t].op = "append" /\ ctx.tasks[t].pc = "idle"
          /\ ctx.tasks[t].result = UnknownSection(ctx.obj, "bogus")
    /\ \E s \in Declared(ctx.obj) : ctx.obj.data[s] # <<>>
    /\ \A s \in SectionNames \ Declared(ctx.obj) : ctx.obj.data[s] = <<>>

\* C27: a snapshot of a context, written as JSON, parsed, and loaded into a
\* newly constructed context of the same type gives back the user prompt and
\* every section exactly, for the world, mystery and dynamic contexts; keys
\* of the stored map that are no declared section are ignored.
C27_SnapshotRoundTrip ==
    [][(ctx.pc = "live" /\ ctx'.ops # ctx.ops /\ ctx'.last = "round_trip") =>
          /\ ctx'.obj.user_prompt = ctx.obj.user_prompt
          /\ ctx'.obj.sections = ctx.obj.sections
          /\ \A s \in Declared(ctx.obj) : ctx'.obj.data[s] = ctx.obj.data[s]]_vars

\* C28: in every state of a plan-driven context, after its construction from
\* any section list and any writes, appends and from_snapshot calls with any
\* incoming map, book_structure is a declared section: a write to it is
\* accepted and its value is read back.
C28_BookStructureIsDeclared ==
    (ctx.pc = "live" /\ ctx.obj.kind = "dynamic") => IsSection(ctx.obj, BOOK)

\* the orders in which n values can be taken
Orders(n) == {f \in [1..n -> 1..n] : \A i, j \in 1..n : i # j => f[i] # f[j]}

\* the tasks that are between acquiring the lock and releasing it
Inside == {t \in CtxTasks : ctx.tasks[t].pc \in {"locked", "loaded"}}

\* C30: one context operation is atomic with respect to the operations that
\* sibling stages run at the same time: no two are inside the lock together,
\* and after concurrent appends a section holds every appended value exactly
\* once, in some order, none lost and none interleaved with another.
C30_OperationsAreAtomic ==
    ctx.pc = "live" =>
        /\ Cardinality(Inside) <= 1
        /\ \A s \in Declared(ctx.obj) :
              LET base == Head(ctx.hist[s])
                  appended == Tail(ctx.hist[s])
              IN  \E f \in Orders(Len(appended)) :
                     ctx.obj.data[s] =
                        Expected(<<base>> \o [i \in 1..Len(appended) |-> appended[f[i]]])

\* one append to a section is done, a second is inside the lock and a third
\* call, an append to the same section by the other task, waits for the lock
C30_Witness ==
    /\ ctx.pc = "live"
    /\ \E s \in Declared(ctx.obj), t \in CtxTasks, u \in CtxTasks :
          /\ t # u
          /\ Len(ctx.hist[s]) >= 2 /\ ctx.hist[s][Len(ctx.hist[s])] # <<>>
          /\ ctx.tasks[t].pc = "loaded" /\ ctx.tasks[t].section = s
          /\ ctx.tasks[t].current = ctx.obj.data[s]
          /\ ctx.tasks[u].pc = "acquire" /\ ctx.tasks[u].op = "append"
          /\ ctx.tasks[u].section = s /\ ctx.tasks[u].content # <<>>

\* -------------------------------------------------- claims: snapshots
\* C29: after every stage that completes (a plan stage, the validation stage,
\* polish, a phase of a fixed pipeline) a context snapshot write is issued
\* before the next stage starts, one snapshot write per completed stage.
C29_SnapshotAfterEveryStage ==
    [][(/\ orch.pc = "stage_complete" /\ orch.kind # "worldbuild"
        /\ StatusOf(Head(orch.todo).number) = "running"
        /\ tracker'.stages # tracker.stages)
          => /\ orch'.pc = "snapshot"
             /\ orch'.todo = orch.todo]_vars

\* -------------------------------------------------- claims: resume loads
\* C31: on a resume, a failure of the remote store while the persisted plan or
\* the persisted context snapshot is loaded is raised to the caller of run():
\* no stage is executed with a missing plan or an unrestored context.
C31_LoadFailureIsRaised ==
    orch.load_failed # "none" =>
        orch.pc \notin {"book_setup", "tracker_init", "stage_start", "stage_run",
                        "stage_complete", "snapshot", "complete", "returned"}

\* =========================================== the tracker built from a plan
\* the stage numbers a plan can carry ("number: int", 1-based)
MaxNumber == 4

\* a PipelinePlan with one or two stages of any numbers, and any or no
\* validation and polish number
AnyPlans ==
    {[genre |-> "essay", stages |-> [i \in 1..Len(ns) |-> [number |-> ns[i], tool_set |-> "write"]],
      validation |-> v, validation_tools |-> "write", polish |-> q, polish_tools |-> "write"] :
        ns \in UNION {[1..k -> 1..MaxNumber] : k \in 1..2},
        v \in 0..MaxNumber, q \in 0..MaxNumber}

\* the stages a plan declares: planning, book setup, its stages, validation, polish
DeclaredStages(plan) ==
    2 + Len(plan.stages) + (IF plan.validation # 0 THEN 1 ELSE 0)
      + (IF plan.polish # 0 THEN 1 ELSE 0)

PlanInit ==
    /\ \E plan \in AnyPlans : orch = [pc |-> "planned", plan |-> plan]
    /\ remote = [book |-> "unused"]
    /\ tracker = NewTracker("", <<>>) /\ progress_md = <<>>
    /\ clock = 0 /\ ops = 0
    /\ NsIdle /\ RunnerIdle /\ StreamIdle /\ CtxIdle

\* tracker = self._create_tracker(plan, book_token, prompt)
PlanCreateTracker ==
    /\ orch.pc = "planned"
    /\ tracker' = CreateTracker(orch.plan, 1)
    /\ orch' = [orch EXCEPT !.pc = "tracked"]
    /\ UNCHANGED <<progress_md, clock, ops, remote, nsVars, runnerVars, stream, ctx>>

SpecPlan == PlanInit /\ [][PlanCreateTracker]_vars

\* C33: the tracker an orchestrator builds has exactly one StageRecord per
\* declared stage of the pipeline, with pairwise distinct ordinals, for every
\* plan the orchestrator accepts, whatever positive numbers its stages carry.
C33_OneRecordPerStage ==
    orch.pc = "tracked" =>
        /\ Len(tracker.stages) = DeclaredStages(orch.plan)
        /\ \A i, j \in 1..Len(tracker.stages) :
              i # j => tracker.stages[i].number # tracker.stages[j].number

\* -------------------------------------------------- claims: best effort
\* C34: a failure of a best-effort remote operation during a stage (the write
\* of the context snapshot, the file listing around the agent's run and for
\* the structure injection) fails neither the stage nor the run: the stage
\* is marked completed and the next stage is started.
C34_BestEffortFailureIsSwallowed ==
    [][(orch.kind \in {"generic", "mystery"} /\ remote'.faults > remote.faults) =>
          /\ (orch.pc = "snapshot") =>
                /\ StatusOf(Head(orch.todo).number) = "completed"
                /\ orch'.todo = Tail(orch.todo)
                /\ orch'.pc = IF orch'.todo = <<>> THEN "complete" ELSE "stage_start"
          /\ (orch.pc = "stage_run" /\ orch'.last.agent # "raised") =>
                /\ orch'.pc \in {"stage_run", "stage_complete"}
                /\ orch'.todo = orch.todo]_vars

\* on a fresh run the snapshot write after the first writing stage failed, that
\* stage is completed in the tracker and the next stage has been started
C34_Witness ==
    /\ orch.kind = "generic" /\ orch.resume_book = "" /\ orch.run = 1
    /\ remote.snapshot = 0 /\ remote.faults = 1
    /\ orch.pc = "stage_run" /\ Len(orch.log) >= 3
    /\ progress_md = RenderMarkdown(tracker)
    /\ StatusOf(3) = "completed" /\ StatusOf(4) = "running"

\* -------------------------------------------------- claims: telemetry
\* C35: every call of run() emits pipeline_start as its first event and
\* pipeline_complete as its last, however the call ends (normal completion, a
\* failed stage, the early return of a resume with nothing left to do), with
\* success = true exactly when run() returns normally.
C35_StartFirstCompleteLast ==
    (orch.kind \in {"generic", "mystery"} /\ orch.pc \in {"returned", "raised"}) =>
        /\ Len(orch.events) >= 2
        /\ Head(orch.events) = "pipeline_start"
        /\ orch.events[Len(orch.events)] =
              IF orch.pc = "returned" THEN "pipeline_complete_ok"
              ELSE "pipeline_complete_failed"

\* -------------------------------------------------- claims: completion
\* C36: when a run that started fresh has finished without error and the
\* tracker's status is completed, every StageRecord, planning and book setup
\* included, is completed and next_stage() gives the done sentinel, so that a
\* resume of that book does no work.
C36_CompletedMeansAllCompleted ==
    (/\ orch.kind \in {"generic", "mystery"}
     /\ orch.run = 1 /\ orch.resume_book = ""
     /\ orch.pc = "returned" /\ tracker.status = "completed") =>
        /\ \A i \in 1..Len(tracker.stages) : tracker.stages[i].status = "completed"
        /\ NextStage(tracker.stages) = DoneSentinel


\* -------------------------------------------------- claims: crash consistency
\* the numbers of the writing stages of a plan (the stages followed by a
\* snapshot write)
WriterNumbers(plan) ==
    {StageBlocks(plan)[i].number :
        i \in {j \in 1..Len(StageBlocks(plan)) : StageBlocks(plan)[j].role = "writer"}}

\* the records the stored progress document shows as completed
PersistedCompleted ==
    LET stages == ParseMarkdown(progress_md).stages
    IN  {stages[i].number : i \in {j \in 1..Len(stages) : stages[j].status = "completed"}}

\* C37: at every point of a fresh run at which the stored progress document
\* shows a writing stage n as completed, the stored context snapshot is the
\* one taken at the end of stage n or of a later stage.
C37_SnapshotCoversCompletedStages ==
    (/\ orch.kind \in {"generic", "mystery"}
     /\ orch.run = 1 /\ orch.resume_book = "") =>
        \A n \in PersistedCompleted \cap WriterNumbers(orch.plan) : remote.snapshot >= n

====
